---- MODULE Spec2Model ----
(***************************************************************************)
(* A model of the RaceIQ telemetry degradation and strategy engine:        *)
(*   src/src/data_loader.py            time parsing of the lap table       *)
(*   src/src/telemetry_processor.py    lap-number normalisation, the       *)
(*                                     telemetry resampler and its cache   *)
(*   src/src/analysis/tire_degradation.py   degradation and pit window     *)
(*   src/src/analysis/race_strategy.py      fuel, pace, pit strategy       *)
(*   src/src/analysis/racing_line.py        coaching comparator            *)
(*                                                                         *)
(* Text is a sequence of one-character strings.  A parsed decimal number   *)
(* is a record [m, e] standing for m / 10^e with no trailing zero in m     *)
(* when e > 0, so equal numbers are equal records.  Lap times of the lap   *)
(* table are integers in milliseconds.                                     *)
(***************************************************************************)
EXTENDS Integers, Sequences, FiniteSets, TLC

VARIABLES
    op,        \* the operation the last step performed ("idle" before any)
    arg,       \* its arguments
    out,       \* what it returned
    laps,      \* the lap table the caller supplies (one vehicle's rows)
    disk,      \* the telemetry cache directory: cache key -> file content
    pc,        \* per caller of process_lap_telemetry: its position
    call,      \* per caller: the arguments of its call
    loc,       \* per caller: its local variables
    res        \* per caller: what its call returned

vars == <<op, arg, out, laps, disk, pc, call, loc, res>>

(***************************************************************************)
(* Python values                                                           *)
(***************************************************************************)
\* Python's None, and the exception a call ends with instead of returning.
None == [none |-> TRUE]
Raised == [raised |-> TRUE]

Pow10(n) == IF n = 0 THEN 1 ELSE IF n = 1 THEN 10 ELSE IF n = 2 THEN 100
            ELSE IF n = 3 THEN 1000 ELSE IF n = 4 THEN 10000
            ELSE IF n = 5 THEN 100000 ELSE 1000000

RECURSIVE Norm(_, _)
Norm(m, e) == IF e > 0 /\ m % 10 = 0 THEN Norm(m \div 10, e - 1)
              ELSE [m |-> m, e |-> e]

Max(a, b) == IF a >= b THEN a ELSE b
Min(a, b) == IF a <= b THEN a ELSE b

\* int(x) of Python on the quotient n/d, d > 0: truncation towards zero.
Trunc(n, d) == IF n >= 0 THEN n \div d ELSE -((-n) \div d)

(***************************************************************************)
(* Text and the numeric literals of Python                                 *)
(***************************************************************************)
Digits == <<"0", "1", "2", "3", "4", "5", "6", "7", "8", "9">>
IsDigit(c) == \E i \in 1..10 : Digits[i] = c
DigitVal(c) == (CHOOSE i \in 1..10 : Digits[i] = c) - 1

Count(s, c) == Cardinality({i \in 1..Len(s) : s[i] = c})
IndexOf(s, c) == CHOOSE i \in 1..Len(s) : s[i] = c /\ \A j \in 1..(i - 1) : s[j] # c

\* str.split(':'): the parts between the colons, in order.
RECURSIVE Split(_)
Split(s) ==
    IF Count(s, ":") = 0 THEN <<s>>
    ELSE LET i == IndexOf(s, ":")
         IN  <<SubSeq(s, 1, i - 1)>> \o Split(SubSeq(s, i + 1, Len(s)))

RECURSIVE DigitsValue(_)
DigitsValue(s) == IF s = <<>> THEN 0
                  ELSE DigitsValue(SubSeq(s, 1, Len(s) - 1)) * 10 + DigitVal(s[Len(s)])

\* int(s) succeeds on a non-empty run of digits (over the model's alphabet,
\* which has no sign, blank or underscore).
IntOk(s) == s # <<>> /\ \A i \in 1..Len(s) : IsDigit(s[i])

\* float(s) succeeds on digits with at most one point and at least one digit
\* (over the model's alphabet, which has no sign, exponent, "inf" or "nan").
FloatOk(s) ==
    /\ \A i \in 1..Len(s) : IsDigit(s[i]) \/ s[i] = "."
    /\ Count(s, ".") <= 1
    /\ \E i \in 1..Len(s) : IsDigit(s[i])

FloatVal(s) ==
    IF Count(s, ".") = 0 THEN Norm(DigitsValue(s), 0)
    ELSE LET i == IndexOf(s, ".")
         IN  Norm(DigitsValue(SubSeq(s, 1, i - 1) \o SubSeq(s, i + 1, Len(s))),
                  Len(s) - i)

\* a * 60 + b on decimals.
MinSec(a, b) ==
    LET e == Max(a.e, b.e)
    IN  Norm(a.m * Pow10(e - a.e) * 60 + b.m * Pow10(e - b.e), e)

(***************************************************************************)
(* 4.1 Time parsing and lap-number normalisation                           *)
(***************************************************************************)
\* RaceDataLoader._time_to_seconds: any exception of int(), float() or
\* split() is caught and None returned.
time_to_seconds(time_str) ==
    LET parts == Split(time_str)
    IN  IF Len(parts) = 2
        THEN IF IntOk(parts[1]) /\ FloatOk(parts[2])
             THEN MinSec(FloatVal(parts[1]), FloatVal(parts[2]))
             ELSE None
        ELSE IF FloatOk(time_str) THEN FloatVal(time_str) ELSE None

\* RaceStrategyAnalyzer's parse_time (the same text in analyze_race_pace,
\* calculate_optimal_pit_strategy and predict_finish_time): with a colon in
\* the text it reads parts[0] and parts[1] and ignores any further part.
parse_time(t) ==
    IF Count(t, ":") > 0
    THEN LET parts == Split(t)
         IN  IF FloatOk(parts[1]) /\ FloatOk(parts[2])
             THEN MinSec(FloatVal(parts[1]), FloatVal(parts[2]))
             ELSE None
    ELSE IF FloatOk(t) THEN FloatVal(t) ELSE None

InvalidLap == -1
SentinelLap == 32768
MaxValidLap == 100

\* (mutant) the upper end of the valid range is not checked.
normalize_lap_number_no_upper(lap) ==
    IF lap = SentinelLap \/ lap < 0 THEN InvalidLap ELSE lap

\* TelemetryProcessor.normalize_lap_number
normalize_lap_number(lap) ==
    IF lap = SentinelLap \/ lap < 0 \/ lap > MaxValidLap THEN InvalidLap ELSE lap

(***************************************************************************)
(* 3. The lap table.  A row is one lap of one vehicle as the loader hands  *)
(* it over: LAP_TIME is the text of the file, lap_time_seconds what        *)
(* _time_to_seconds made of it (milliseconds here, NaN when it returned    *)
(* None), the sector times are in milliseconds, KPH in km/h.               *)
(***************************************************************************)
\* A float column holds numbers and NaN.
NaN == [nan |-> TRUE]
Num(x) == [v |-> x]

RECURSIVE Sum(_)
Sum(s) == IF s = <<>> THEN 0 ELSE s[1] + Sum(Tail(s))

\* s[i] mapped through a field or expression is written [i \in 1..Len(s) |-> ...].
Head5(s) == SubSeq(s, 1, Min(5, Len(s)))
Tail5(s) == SubSeq(s, Max(1, Len(s) - 4), Len(s))

\* A decimal as milliseconds (the model's texts carry at most 3 decimals).
ToMillis(v) == v.m * Pow10(3 - v.e)

TwoDigits(n) == <<Digits[(n \div 10) + 1], Digits[(n % 10) + 1]>>
ThreeDigits(n) == <<Digits[(n \div 100) + 1]>> \o TwoDigits(n % 100)

\* The LAP_TIME text "M:SS.mmm" of a lap time below ten minutes.
LapTimeText(ms) ==
    <<Digits[(ms \div 60000) + 1], ":">> \o TwoDigits((ms % 60000) \div 1000)
        \o <<".">> \o ThreeDigits(ms % 1000)

\* load_analysis_endurance: lap_time_seconds = LAP_TIME.apply(_time_to_seconds)
LoadRow(number, lap, text, sectors, kph) ==
    LET t == time_to_seconds(text)
    IN  [NUMBER |-> number, LAP_NUMBER |-> lap, LAP_TIME |-> text,
         lap_time_seconds |-> IF t = None THEN NaN ELSE Num(ToMillis(t)),
         S1_SECONDS |-> sectors[1], S2_SECONDS |-> sectors[2],
         S3_SECONDS |-> sectors[3], KPH |-> kph]

\* analysis_df[analysis_df['NUMBER'] == vehicle_number]
VehicleRows(df, v) == SelectSeq(df, LAMBDA r : r.NUMBER = v)

\* sort_values('LAP_NUMBER'): ascending, rows of equal lap number in order.
RECURSIVE SortByLap(_)
SortByLap(rows) ==
    IF rows = <<>> THEN <<>>
    ELSE LET last == rows[Len(rows)]
             init == SortByLap(SubSeq(rows, 1, Len(rows) - 1))
             k == Cardinality({i \in 1..Len(init) : init[i].LAP_NUMBER <= last.LAP_NUMBER})
         IN  SubSeq(init, 1, k) \o <<last>> \o SubSeq(init, k + 1, Len(init))

\* Series.min(): the least value that is not NaN, NaN when there is none.
MinTime(rows) ==
    LET ts == {rows[i].lap_time_seconds : i \in 1..Len(rows)} \ {NaN}
    IN  IF ts = {} THEN NaN ELSE CHOOSE t \in ts : \A u \in ts : t.v <= u.v

(***************************************************************************)
(* 4.3 Degradation analyzer                                                *)
(***************************************************************************)
StintLength == 15

\* TireDegradationAnalyzer.analyze_lap_degradation: the vehicle's rows by
\* ascending lap with delta_to_best (ms) and estimated_tire_life (in thirds
\* of a percent: 100 - LAP/15*100 = (300 - 20*LAP)/3, clipped to [0,100]).
analyze_lap_degradation(df, v) ==
    LET rows == VehicleRows(df, v)
        sorted == SortByLap(rows)
        best == MinTime(sorted)
    IN  IF Len(rows) = 0 THEN <<>>
        ELSE [i \in 1..Len(sorted) |->
                [LAP_NUMBER |-> sorted[i].LAP_NUMBER,
                 lap_time_seconds |-> sorted[i].lap_time_seconds,
                 delta_to_best |-> IF sorted[i].lap_time_seconds = NaN THEN NaN
                                   ELSE Num(sorted[i].lap_time_seconds.v - best.v),
                 estimated_tire_life3 |->
                     Max(0, Min(300, 300 - 20 * sorted[i].LAP_NUMBER))]]

\* The least-squares line through (x[i], y[i]): slope = sxy / sxx.
Sxx(x) == Len(x) * Sum([i \in 1..Len(x) |-> x[i] * x[i]]) - Sum(x) * Sum(x)
Sxy(x, y) == Len(x) * Sum([i \in 1..Len(x) |-> x[i] * y[i]]) - Sum(x) * Sum(y)

DegradationThresholdMs == 1500

\* (mutant) the upper end of the window is not applied.
ClampPitLapLowerOnly(pit_lap, current_lap, total_laps) == Max(current_lap + 1, pit_lap)

\* max(current_lap + 1, min(pit_lap, total_laps - 2))
ClampPitLap(pit_lap, current_lap, total_laps) ==
    Max(current_lap + 1, Min(pit_lap, total_laps - 2))

\* recent_laps: LAP_NUMBER >= current_lap - 5, or the last 5 rows when that
\* leaves fewer than 3.
RecentLaps(vehicle_laps, current_lap) ==
    LET recent == SelectSeq(vehicle_laps, LAMBDA r : r.LAP_NUMBER >= current_lap - 5)
    IN  IF Len(recent) < 3 THEN Tail5(vehicle_laps) ELSE recent

\* min(100, len(recent_laps) * 20)
Confidence(n) == Min(100, n * 20)

\* TireDegradationAnalyzer.predict_pit_window.  LinearRegression.fit raises
\* ValueError when y holds a NaN.  With slope = sxy/sxx and the fitted value
\* at current_lap, laps_until_threshold = lnum / lden below.
predict_pit_window(df, v, current_lap, total_laps) ==
    LET vehicle_laps == analyze_lap_degradation(df, v)
        recent == RecentLaps(vehicle_laps, current_lap)
        n == Len(recent)
        x == [i \in 1..n |-> recent[i].LAP_NUMBER]
        nan == \E i \in 1..n : recent[i].delta_to_best = NaN
        y == [i \in 1..n |-> recent[i].delta_to_best.v]
        sxx == Sxx(x)
        sxy == Sxy(x, y)
        lnum == DegradationThresholdMs * n * sxx - Sum(y) * sxx
                    - sxy * (n * current_lap - Sum(x))
        lden == n * sxy
    IN  IF Len(vehicle_laps) < 5
        THEN [pit_lap |-> None, confidence |-> 0, message |-> "Insufficient data"]
        ELSE IF nan THEN Raised
        ELSE IF sxy > 10 * sxx   \* degradation_rate > 0.01 s per lap
        THEN [pit_lap |-> ClampPitLap(Trunc(current_lap * lden + lnum, lden),
                                      current_lap, total_laps),
              laps_remaining |-> Trunc(lnum, lden),
              confidence |-> Confidence(n),
              message |-> "Pit recommended"]
        ELSE [pit_lap |-> total_laps - 1,
              laps_remaining |-> total_laps - current_lap,
              confidence |-> 50,
              message |-> "Tires stable, can extend stint"]

(***************************************************************************)
(* 4.4 Pit / fuel strategy optimizer.  Fuel is in millilitres, time in     *)
(* milliseconds; a quantity that is not an integer is a fraction           *)
(* [num, den] with den > 0.                                                *)
(***************************************************************************)
RECURSIVE Gcd(_, _)
Gcd(a, b) == IF b = 0 THEN a ELSE Gcd(b, a % b)

\* The fraction n/d, d > 0, in lowest terms.
Frac(n, d) ==
    LET g == Gcd(IF n < 0 THEN -n ELSE n, d)
    IN  [num |-> n \div g, den |-> d \div g]
Inf == [inf |-> TRUE]
NegInf == [neginf |-> TRUE]

\* round(x) of Python on the fraction n/d, d > 0: to the nearest integer,
\* a tie to the even one.
RoundHalfEven(n, d) ==
    LET q == n \div d
        r == n - q * d
    IN  IF 2 * r < d THEN q
        ELSE IF 2 * r > d THEN q + 1
        ELSE IF q % 2 = 0 THEN q ELSE q + 1

\* round(x, 2) of a time of n/d milliseconds, in hundredths of a second.
Round2(f) == RoundHalfEven(f.num, 10 * f.den)

ConsumptionMl == 80      \* fuel_consumption_rate = 0.08 litres per lap
TankMl == 50000          \* tank_capacity = 50.0 litres
PitStopMs == 45000       \* pit_stop_time = 45.0 seconds
RefKph == 120
DefaultDegRateMs == 50   \* tire_deg_rate = 0.05 seconds per lap
MinDegRateMs == 10       \* max(actual_deg_rate, 0.01)

\* needs_pit = laps_on_current_fuel < laps_remaining
NeedsPit(laps_on_current_fuel, laps_remaining) ==
    laps_on_current_fuel < laps_remaining

\* (mutant) two laps before the fuel runs out, without the floor.
FuelPitLapNoFloor(current_lap, laps_on_current_fuel) ==
    current_lap + laps_on_current_fuel - 2

\* pit_lap = current_lap + max(1, laps_on_current_fuel - 2)
FuelPitLap(current_lap, laps_on_current_fuel) ==
    current_lap + Max(1, laps_on_current_fuel - 2)

\* adjusted_consumption = fuel_consumption_rate * (mean(KPH) / 120), in ml.
AdjustedConsumption(rows) ==
    Frac(ConsumptionMl * Sum([i \in 1..Len(rows) |-> rows[i].KPH]), RefKph * Len(rows))

(***************************************************************************)
(* Python floats (IEEE 754 doubles) in the arithmetic of                   *)
(* calculate_fuel_strategy.  A positive double is mant * 2^exp with mant a *)
(* natural number of at most 53 bits, kept as a sequence of limbs of 15    *)
(* bits, least significant first, without leading zero limbs (0 is <<>>).  *)
(* Every operation gives the double nearest to the exact result, a tie to  *)
(* the even mantissa.                                                      *)
(***************************************************************************)
LimbBits == 15
LimbBase == 2 ^ LimbBits
MantBits == 53

RECURSIVE BigOf(_)
BigOf(n) == IF n = 0 THEN <<>> ELSE <<n % LimbBase>> \o BigOf(n \div LimbBase)

RECURSIVE SmallOf(_)
SmallOf(a) == IF a = <<>> THEN 0 ELSE a[1] + LimbBase * SmallOf(Tail(a))

RECURSIVE Strip(_)
Strip(a) == IF a # <<>> /\ a[Len(a)] = 0 THEN Strip(SubSeq(a, 1, Len(a) - 1)) ELSE a

Limb(a, i) == IF i <= Len(a) THEN a[i] ELSE 0

RECURSIVE AddFrom(_, _, _, _)
AddFrom(a, b, i, carry) ==
    IF i > Len(a) /\ i > Len(b) THEN (IF carry = 0 THEN <<>> ELSE <<carry>>)
    ELSE LET s == Limb(a, i) + Limb(b, i) + carry
         IN  <<s % LimbBase>> \o AddFrom(a, b, i + 1, s \div LimbBase)
BigAdd(a, b) == AddFrom(a, b, 1, 0)

\* a - b for a >= b.
RECURSIVE SubFrom(_, _, _, _)
SubFrom(a, b, i, borrow) ==
    IF i > Len(a) THEN <<>>
    ELSE LET d == a[i] - Limb(b, i) - borrow
         IN  <<d % LimbBase>> \o SubFrom(a, b, i + 1, IF d < 0 THEN 1 ELSE 0)
BigSub(a, b) == Strip(SubFrom(a, b, 1, 0))

RECURSIVE LessFrom(_, _, _)
LessFrom(a, b, i) ==
    IF i = 0 THEN FALSE
    ELSE IF a[i] # b[i] THEN a[i] < b[i]
    ELSE LessFrom(a, b, i - 1)
BigLess(a, b) == IF Len(a) # Len(b) THEN Len(a) < Len(b) ELSE LessFrom(a, b, Len(a))

\* a * k for a limb k.
RECURSIVE MulFrom(_, _, _, _)
MulFrom(a, k, i, carry) ==
    IF i > Len(a) THEN (IF carry = 0 THEN <<>> ELSE <<carry>>)
    ELSE LET p == a[i] * k + carry
         IN  <<p % LimbBase>> \o MulFrom(a, k, i + 1, p \div LimbBase)
BigMulSmall(a, k) == IF k = 0 THEN <<>> ELSE MulFrom(a, k, 1, 0)

\* a * LimbBase^n
ShiftLimbs(a, n) == IF a = <<>> THEN <<>> ELSE [i \in 1..n |-> 0] \o a

RECURSIVE BigMul(_, _)
BigMul(a, b) ==
    IF b = <<>> THEN <<>>
    ELSE BigAdd(BigMulSmall(a, b[1]), ShiftLimbs(BigMul(a, Tail(b)), 1))

\* a * 2^s
BigShl(a, s) == ShiftLimbs(BigMulSmall(a, 2 ^ (s % LimbBits)), s \div LimbBits)

\* The number of bits of a limb.
Bits(n) == CHOOSE k \in 0..LimbBits : n < 2 ^ k /\ (k = 0 \/ 2 ^ (k - 1) <= n)
BitLen(a) == IF a = <<>> THEN 0 ELSE LimbBits * (Len(a) - 1) + Bits(a[Len(a)])

\* The largest k <= est with k * d <= r.
RECURSIVE QuotientLimb(_, _, _)
QuotientLimb(r, d, est) ==
    IF BigLess(r, BigMulSmall(d, est)) THEN QuotientLimb(r, d, est - 1) ELSE est

\* The first guess of a quotient limb of r by d, from their top limbs; it is
\* never below the limb when the top limb of d has its top bit set.
EstimateLimb(r, d) ==
    Min(LimbBase - 1,
        (Limb(r, Len(d) + 1) * LimbBase + Limb(r, Len(d))) \div d[Len(d)])

\* Long division of n by d, whose top limb has its top bit set, from limb i
\* of n down: r is the remainder and q the quotient of the limbs above i;
\* DivStep takes limb i into the remainder r and DivTake takes k * d out.
RECURSIVE DivFrom(_, _, _, _, _)
DivTake(n, d, i, r, q, k) ==
    DivFrom(n, d, i - 1, BigSub(r, BigMulSmall(d, k)), <<k>> \o q)
DivStep(n, d, i, r, q) == DivTake(n, d, i, r, q, QuotientLimb(r, d, EstimateLimb(r, d)))
DivFrom(n, d, i, r, q) ==
    IF i = 0 THEN [q |-> Strip(q), r |-> r, ds |-> d]
    ELSE DivStep(n, d, i, Strip(<<n[i]>> \o r), q)

\* Quotient q and remainder r of n by d > 0, both scaled by 2^s so that the
\* top limb of the divisor ds has its top bit set; r < ds.
DivScaled(n, d) == DivFrom(n, d, Len(n), <<>>, <<>>)
BigDivMod(n, d) ==
    IF Bits(d[Len(d)]) = LimbBits THEN DivScaled(n, d)
    ELSE DivScaled(BigShl(n, LimbBits - Bits(d[Len(d)])),
                   BigShl(d, LimbBits - Bits(d[Len(d)])))

\* The quotient qr is followed by a remainder above half the divisor, or of
\* half the divisor when the quotient is odd.
RoundsUp(qr, twice) ==
    BigLess(qr.ds, twice) \/ (twice = qr.ds /\ qr.q[1] % 2 = 1)

\* The double mant * 2^exp of a mantissa of MantBits bits, or of 2^MantBits.
Double(m, e) ==
    IF BitLen(m) > MantBits THEN [mant |-> BigShl(<<1>>, MantBits - 1), exp |-> e + 1]
    ELSE [mant |-> m, exp |-> e]

\* The double nearest to qr * 2^e for a quotient with remainder qr whose
\* quotient has MantBits bits: to the nearest, a tie to the even mantissa.
RoundHalfEvenDouble(qr, e) ==
    Double(IF RoundsUp(qr, BigAdd(qr.r, qr.r)) THEN BigAdd(qr.q, <<1>>) ELSE qr.q, e)

\* The double nearest to n / d * 2^e when n / d < 2^(MantBits + 1) has
\* MantBits bits or one more.
RoundQuotient(n, d, e) ==
    IF BigLess(n, BigShl(d, MantBits)) THEN RoundHalfEvenDouble(BigDivMod(n, d), e)
    ELSE RoundHalfEvenDouble(BigDivMod(n, BigAdd(d, d)), e + 1)

\* The double nearest to n / d * 2^(e - s), for s as below.
RoundShifted(n, d, e, s) ==
    IF s >= 0 THEN RoundQuotient(BigShl(n, s), d, e - s)
    ELSE RoundQuotient(n, BigShl(d, -s), e - s)

\* The double nearest to n / d * 2^e, for n, d > 0: n or d is shifted so
\* that the quotient has MantBits bits or one more, and the quotient is
\* rounded.
RoundToDouble(n, d, e) == RoundShifted(n, d, e, MantBits + BitLen(d) - BitLen(n))

\* float(n) of an int, a / b, a * b and a - b (for a > b) of floats.
FloatOfInt(n) == [mant |-> BigOf(n), exp |-> 0]
FloatDiv(a, b) == RoundToDouble(a.mant, b.mant, a.exp - b.exp)
FloatMul(a, b) == RoundToDouble(BigMul(a.mant, b.mant), <<1>>, a.exp + b.exp)
FloatSub(a, b) ==
    IF a.exp <= b.exp
    THEN RoundToDouble(BigSub(a.mant, BigShl(b.mant, b.exp - a.exp)), <<1>>, a.exp)
    ELSE RoundToDouble(BigSub(BigShl(a.mant, a.exp - b.exp), b.mant), <<1>>, b.exp)

\* int(x) of a float x > 0.
FloatToInt(x) ==
    IF x.exp >= 0 THEN SmallOf(BigShl(x.mant, x.exp))
    ELSE SmallOf(BigDivMod(x.mant, BigShl(<<1>>, -x.exp)).q)

\* float(text) of a decimal n/d > 0, as Python reads a literal or a CSV cell.
FloatOfDecimal(n, d) == RoundToDouble(BigOf(n), BigOf(d), 0)

\* adjusted_consumption as the code computes it: the mean of KPH,
\* avg_speed / 120.0, then fuel_consumption_rate * speed_factor.
FloatAdjustedConsumption(rows) ==
    FloatMul(FloatOfDecimal(ConsumptionMl, 1000),
             FloatDiv(FloatDiv(FloatOfInt(Sum([i \in 1..Len(rows) |-> rows[i].KPH])),
                               FloatOfInt(Len(rows))),
                      FloatOfInt(RefKph)))

\* current_fuel as a float: the one supplied (Num(millilitres)), or
\* tank_capacity - laps_completed * adjusted_consumption.
FloatCurrentFuel(adjusted_consumption, current_lap, current_fuel) ==
    IF current_fuel = None
    THEN FloatSub(FloatOfDecimal(TankMl, 1000),
                  FloatMul(FloatOfInt(current_lap), adjusted_consumption))
    ELSE FloatOfDecimal(current_fuel.v, 1000)

\* int(current_fuel / adjusted_consumption) for a positive current fuel.
FloatLapsOn(adjusted_consumption, current_lap, current_fuel) ==
    FloatToInt(FloatDiv(FloatCurrentFuel(adjusted_consumption, current_lap, current_fuel),
                        adjusted_consumption))
FloatLapsOnFuel(rows, current_lap, current_fuel) ==
    FloatLapsOn(FloatAdjustedConsumption(rows), current_lap, current_fuel)

\* laps_on_current_fuel = int(current_fuel / adjusted_consumption), for the
\* exact fuel and consumption fuel and adj.  The quotient is one of two
\* doubles, which are within 2^-50 of the exact values: it truncates to the
\* truncated exact quotient unless that quotient is a whole number, where
\* the doubles decide on which side of it the quotient falls.
LapsOnCurrentFuel(rows, adj, fuel, current_lap, current_fuel) ==
    IF fuel.num > 0 /\ (fuel.num * adj.den) % (fuel.den * adj.num) = 0
    THEN FloatLapsOnFuel(rows, current_lap, current_fuel)
    ELSE Trunc(fuel.num * adj.den, fuel.den * adj.num)

\* The result of calculate_fuel_strategy from laps_on_current_fuel on.
FuelStrategy(adj, fuel, laps_on_current_fuel, current_lap, total_laps) ==
    LET laps_remaining == total_laps - current_lap
        pit_lap == FuelPitLap(current_lap, laps_on_current_fuel)
        room == Frac(TankMl * fuel.den - fuel.num, fuel.den)
        to_finish == Frac((total_laps - pit_lap) * adj.num, adj.den)
    IN  IF NeedsPit(laps_on_current_fuel, laps_remaining)
        THEN [needs_pit |-> TRUE,
              recommended_pit_lap |-> pit_lap,
              laps_on_current_fuel |-> laps_on_current_fuel,
              current_fuel |-> fuel,
              fuel_to_add |-> IF room.num * to_finish.den <= to_finish.num * room.den
                              THEN room ELSE to_finish,
              consumption_per_lap |-> adj]
        ELSE [needs_pit |-> FALSE,
              laps_on_current_fuel |-> laps_on_current_fuel,
              current_fuel |-> fuel,
              consumption_per_lap |-> adj]

\* RaceStrategyAnalyzer.calculate_fuel_strategy; current_fuel is None or
\* Num(millilitres).  The figures reported are kept as exact fractions.
calculate_fuel_strategy(df, v, current_lap, total_laps, current_fuel) ==
    LET rows == VehicleRows(df, v)
        adj == AdjustedConsumption(rows)
        fuel == IF current_fuel = None
                THEN Frac(TankMl * adj.den - current_lap * adj.num, adj.den)
                ELSE Frac(current_fuel.v, 1)
    IN  IF Len(rows) = 0 THEN [error |-> "No data for vehicle"]
        ELSE FuelStrategy(adj, fuel,
                          LapsOnCurrentFuel(rows, adj, fuel, current_lap, current_fuel),
                          current_lap, total_laps)

\* vehicle_laps['LAP_TIME'].apply(parse_time), then dropna: the parsed lap
\* times (ms) of the rows whose text parsed, in row order.
ParsedTimes(rows) ==
    LET ok == SelectSeq(rows, LAMBDA r : parse_time(r.LAP_TIME) # None)
    IN  [i \in 1..Len(ok) |-> ToMillis(parse_time(ok[i].LAP_TIME))]

\* sum(i for i in range(k))
Triangle(k) == IF k <= 0 THEN 0 ELSE (k * (k - 1)) \div 2

\* tire_deg_rate: the default, or with 10 parsed laps and more
\* max((mean(last 5) - mean(first 5)) / len, 0.01), in ms per lap.
DegRate(times) ==
    LET d == Sum(Tail5(times)) - Sum(Head5(times))
    IN  IF Len(times) >= 10
        THEN IF d >= MinDegRateMs * 5 * Len(times) THEN Frac(d, 5 * Len(times))
             ELSE Frac(MinDegRateMs, 1)
        ELSE Frac(DefaultDegRateMs, 1)

\* total_time_lost of a stop at pit_lap: degradation before the stop, the
\* stop, and 30% of the degradation after it (ms).
PitCost(rate, current_lap, total_laps, pit_lap) ==
    [num |-> rate.num * (10 * Triangle(pit_lap - current_lap)
                            + 3 * Triangle(total_laps - pit_lap))
                + PitStopMs * 10 * rate.den,
     den |-> 10 * rate.den]

\* range(current_lap + 1, total_laps - 2)
PitCandidates(current_lap, total_laps) == (current_lap + 1)..(total_laps - 3)

\* RaceStrategyAnalyzer.calculate_optimal_pit_strategy with the default
\* tire_deg_rate argument.  The loop keeps the first candidate of least cost;
\* with no candidate it leaves best_pit_lap = current_lap + 1 and
\* min_total_time_lost = float('inf').
calculate_optimal_pit_strategy(df, v, current_lap, total_laps) ==
    LET rows == VehicleRows(df, v)
        rate == DegRate(ParsedTimes(rows))
        no_pit == Frac(rate.num * Triangle(total_laps - current_lap), rate.den)
        cands == PitCandidates(current_lap, total_laps)
        cost(p) == PitCost(rate, current_lap, total_laps, p).num
        best == CHOOSE p \in cands :
                    \A q \in cands : cost(p) < cost(q) \/ (cost(p) = cost(q) /\ p <= q)
        least == PitCost(rate, current_lap, total_laps, best)
        saved == Frac(no_pit.num * least.den - least.num * no_pit.den,
                      no_pit.den * least.den)
    IN  IF Len(rows) < 5 THEN [error |-> "Insufficient data"]
        ELSE IF cands = {}
        THEN [should_pit |-> FALSE,
              optimal_pit_lap |-> current_lap + 1,
              laps_until_pit |-> 1,
              time_saved_seconds |-> NegInf,
              degradation_rate |-> rate,
              time_lost_no_pit |-> Num(Round2(no_pit)),
              time_lost_with_pit |-> Inf]
        ELSE [should_pit |-> saved.num > 5000 * saved.den,
              optimal_pit_lap |-> best,
              laps_until_pit |-> best - current_lap,
              time_saved_seconds |-> Num(Round2(saved)),
              degradation_rate |-> rate,
              time_lost_no_pit |-> Num(Round2(no_pit)),
              time_lost_with_pit |-> Num(Round2(least))]

\* Rows of vehicle v with LAP_NUMBER <= current_lap, in table order.
RowsUpTo(df, v, current_lap) ==
    SelectSeq(df, LAMBDA r : r.NUMBER = v /\ r.LAP_NUMBER <= current_lap)

\* analysis_df['NUMBER'].unique(): the vehicles in order of first appearance.
RECURSIVE Unique(_)
Unique(df) ==
    IF df = <<>> THEN <<>>
    ELSE LET init == Unique(SubSeq(df, 1, Len(df) - 1))
             n == df[Len(df)].NUMBER
         IN  IF \E i \in 1..Len(init) : init[i] = n THEN init ELSE Append(init, n)

\* The competitors that enter the ranking with the sum and the count of
\* their parsed lap times among their last 5 rows up to current_lap.
CompetitorPaces(df, v, current_lap) ==
    LET others == SelectSeq(Unique(df), LAMBDA c : c # v)
        times(c) == ParsedTimes(Tail5(RowsUpTo(df, c, current_lap)))
        ranked == SelectSeq(others, LAMBDA c : Len(times(c)) > 0)
    IN  [i \in 1..Len(ranked) |->
            [vehicle |-> ranked[i], sum |-> Sum(times(ranked[i])),
             n |-> Len(times(ranked[i]))]]

\* RaceStrategyAnalyzer.analyze_race_pace.  Times are milliseconds; the
\* trend is the slope of the last 5 parsed lap times over 0..n-1, a fraction;
\* the standard deviation is kept as its comparison with 0.5 s (false for
\* the NaN of a single lap).
analyze_race_pace(df, v, current_lap) ==
    LET rows == RowsUpTo(df, v, current_lap)
        times == ParsedTimes(rows)
        recent == Tail5(times)
        n == Len(recent)
        best == CHOOSE t \in {times[i] : i \in 1..Len(times)} :
                    \A i \in 1..Len(times) : t <= times[i]
        x == [i \in 1..n |-> i - 1]
        dev == [i \in 1..n |-> recent[i] - recent[1]]
        trend == IF n >= 3 THEN Frac(Sxy(x, dev), Sxx(x)) ELSE Frac(0, 1)
        ssd == n * Sum([i \in 1..n |-> dev[i] * dev[i]]) - Sum(dev) * Sum(dev)
        comps == CompetitorPaces(df, v, current_lap)
        faster == {i \in 1..Len(comps) : comps[i].sum * n < Sum(recent) * comps[i].n}
    IN  IF Len(rows) < 3 THEN [error |-> "Insufficient data"]
        ELSE IF Len(times) = 0 THEN [error |-> "No valid lap times"]
        ELSE [current_pace |-> RoundHalfEven(Sum(recent), n),
              best_lap |-> best,
              pace_delta |-> RoundHalfEven(Sum(recent) - n * best, n),
              trend_per_lap |-> trend,
              pace_position |-> 1 + Cardinality(faster),
              total_competitors |-> Len(comps) + 1,
              is_improving |-> trend.num < -10 * trend.den,
              is_degrading |-> trend.num > 10 * trend.den,
              is_consistent |-> n >= 2 /\ ssd < 250000 * n * (n - 1)]

\* round(trend, 4) as analyze_race_pace reports it, in tenths of a ms per lap.
TrendPerLap(pace) == RoundHalfEven(10 * pace.trend_per_lap.num, pace.trend_per_lap.den)

\* (mutant) the loop counts i from 1 to n.
RemainingTimeFromOne(current_pace, trend, n) ==
    IF n <= 0 THEN 0 ELSE n * 10 * current_pace + trend * ((n * (n + 1)) \div 2)

\* for i in range(laps_remaining): predicted_remaining_time +=
\* current_pace + trend * i; in tenths of a ms (current_pace in ms).
RECURSIVE RemainingTime(_, _, _)
RemainingTime(current_pace, trend, n) ==
    IF n <= 0 THEN 0
    ELSE RemainingTime(current_pace, trend, n - 1) + 10 * current_pace + trend * (n - 1)

\* The figures predict_finish_time reports, rounded (hundredths of a second;
\* predicted_avg_lap in ms), from the elapsed time (ms) and the predicted
\* remaining time (tenths of a ms).  The text predicted_finish_time is left
\* out.
FinishFigures(time_elapsed, predicted_remaining_time, laps_remaining) ==
    [predicted_finish_seconds |->
         RoundHalfEven(10 * time_elapsed + predicted_remaining_time, 100),
     time_elapsed |-> RoundHalfEven(time_elapsed, 10),
     time_remaining |-> RoundHalfEven(predicted_remaining_time, 100),
     laps_remaining |-> laps_remaining,
     predicted_avg_lap |->
         IF laps_remaining > 0
         THEN RoundHalfEven(predicted_remaining_time, 10 * laps_remaining)
         ELSE 0]

\* predict_finish_time from the result of analyze_race_pace on: its error
\* record as it is, else the figures.
FinishPrediction(pace_analysis, time_elapsed, laps_remaining) ==
    IF "error" \in DOMAIN pace_analysis THEN pace_analysis
    ELSE FinishFigures(time_elapsed,
                       RemainingTime(pace_analysis.current_pace,
                                     TrendPerLap(pace_analysis), laps_remaining),
                       laps_remaining)

\* RaceStrategyAnalyzer.predict_finish_time.
predict_finish_time(df, v, current_lap, total_laps) ==
    FinishPrediction(analyze_race_pace(df, v, current_lap),
                     Sum(ParsedTimes(RowsUpTo(df, v, current_lap))),
                     total_laps - current_lap)

(***************************************************************************)
(* 4.2 Racing-line analyzer: coaching                                      *)
(***************************************************************************)
\* Series.idxmin(): the first row holding the least lap time that is not
\* NaN.  With no such row there is no label and .loc[...] raises.
IdxMin(rows) ==
    CHOOSE i \in 1..Len(rows) :
        /\ rows[i].lap_time_seconds = MinTime(rows)
        /\ \A j \in 1..(i - 1) : rows[j].lap_time_seconds # MinTime(rows)

CoachingThresholdMs == 100

\* A sector time of ms milliseconds is held as the double nearest to
\* ms / 1000.  Binade(ms) is its exponent (1 s <= time < 128 s), and
\* FloatErr(ms) the double minus ms / 1000, in units of 2^-52 / 125.
Binade(ms) == CHOOSE k \in 0..6 : 1000 * (2 ^ k) <= ms /\ ms < 1000 * (2 ^ (k + 1))

RECURSIVE Pow2Mod125(_)
Pow2Mod125(n) == IF n = 0 THEN 1 ELSE (2 * Pow2Mod125(n - 1)) % 125

FloatErr(ms) ==
    LET k == Binade(ms)
        r == ((ms % 125) * Pow2Mod125(49 - k)) % 125
    IN  (IF r <= 62 THEN 0 - r ELSE 125 - r) * (2 ^ k)

\* (mutant) the comparison on the decimal values of the two times.
ExceedsThresholdExactly(a, b) == a - b > CoachingThresholdMs

\* a - b > 0.1 on doubles: the subtraction is exact, and the double 0.1 lies
\* 3.125 units above one tenth, so a difference of exactly 100 ms passes
\* when the representation errors of a and b differ by 4 units or more.
ExceedsThreshold(a, b) ==
    \/ a - b > CoachingThresholdMs
    \/ a - b = CoachingThresholdMs /\ FloatErr(a) - FloatErr(b) >= 4

\* opportunities.sort(key=time_loss, reverse=True): descending and stable.
RECURSIVE SortByLoss(_)
SortByLoss(s) ==
    IF s = <<>> THEN <<>>
    ELSE LET last == s[Len(s)]
             init == SortByLoss(SubSeq(s, 1, Len(s) - 1))
             k == Cardinality({i \in 1..Len(init) : init[i].time_loss >= last.time_loss})
         IN  SubSeq(init, 1, k) \o <<last>> \o SubSeq(init, k + 1, Len(init))

\* RacingLineAnalyzer.find_coaching_opportunities; current_lap_data carries
\* the three sector times of the lap under review (ms).
find_coaching_opportunities(df, v, current_lap_data) ==
    LET rows == VehicleRows(df, v)
        best_lap == rows[IdxMin(rows)]
        loss == <<current_lap_data[1] - best_lap.S1_SECONDS,
                  current_lap_data[2] - best_lap.S2_SECONDS,
                  current_lap_data[3] - best_lap.S3_SECONDS>>
        names == <<"S1", "S2", "S3">>
        best == <<best_lap.S1_SECONDS, best_lap.S2_SECONDS, best_lap.S3_SECONDS>>
        found == SelectSeq(<<1, 2, 3>>,
                           LAMBDA k : ExceedsThreshold(current_lap_data[k], best[k]))
    IN  IF Len(rows) = 0 THEN <<>>
        ELSE IF MinTime(rows) = NaN THEN Raised
        ELSE SortByLoss([i \in 1..Len(found) |->
                            [sector |-> names[found[i]], time_loss |-> loss[found[i]]]])

\* (mutant) the largest value of a sector column.
WorstSector(rows, name) ==
    CHOOSE m \in {rows[i][name] : i \in 1..Len(rows)} :
        \A i \in 1..Len(rows) : rows[i][name] <= m

\* vehicle_laps[name].min()
BestSector(rows, name) ==
    CHOOSE m \in {rows[i][name] : i \in 1..Len(rows)} :
        \A i \in 1..Len(rows) : m <= rows[i][name]

EmptyDict == [k \in {} |-> None]

\* RacingLineAnalyzer.calculate_potential_lap_time (ms; round(x, 3) leaves a
\* whole number of milliseconds as it is).
calculate_potential_lap_time(df, v) ==
    LET vehicle_laps == VehicleRows(df, v)
        best_s1 == BestSector(vehicle_laps, "S1_SECONDS")
        best_s2 == BestSector(vehicle_laps, "S2_SECONDS")
        best_s3 == BestSector(vehicle_laps, "S3_SECONDS")
        theoretical_best == best_s1 + best_s2 + best_s3
        actual_best == MinTime(vehicle_laps)
    IN  IF Len(vehicle_laps) = 0 THEN EmptyDict
        ELSE [theoretical_best |-> Num(theoretical_best),
              actual_best |-> actual_best,
              improvement_potential |->
                  IF actual_best = NaN THEN NaN
                  ELSE Num(actual_best.v - theoretical_best),
              best_s1 |-> Num(best_s1),
              best_s2 |-> Num(best_s2),
              best_s3 |-> Num(best_s3)]

(***************************************************************************)
(* 4.2 Racing-line analyzer: braking zones.  telemetry_df is a sequence of *)
(* samples with vehicle_id, lap, pbrake_f (bar), Speed and                 *)
(* Laptrigger_lapdist_dls.                                                 *)
(***************************************************************************)
\* sort_values('Laptrigger_lapdist_dls'): ascending, equal distances in order.
RECURSIVE SortByDistance(_)
SortByDistance(rows) ==
    IF rows = <<>> THEN <<>>
    ELSE LET last == rows[Len(rows)]
             init == SortByDistance(SubSeq(rows, 1, Len(rows) - 1))
             k == Cardinality({i \in 1..Len(init) :
                    init[i].Laptrigger_lapdist_dls <= last.Laptrigger_lapdist_dls})
         IN  SubSeq(init, 1, k) \o <<last>> \o SubSeq(init, k + 1, Len(init))

\* RacingLineAnalyzer.extract_racing_line
extract_racing_line(telemetry_df, vehicle_id, lap_num) ==
    SortByDistance(SelectSeq(telemetry_df,
        LAMBDA r : r.vehicle_id = vehicle_id /\ r.lap = lap_num))

BrakingThreshold == 10

\* is_braking and braking_start of sample i of lap_data.
IsBraking(lap_data, i) == lap_data[i].pbrake_f > BrakingThreshold
BrakingStart(lap_data, i) ==
    IsBraking(lap_data, i) /\ (i = 1 \/ ~IsBraking(lap_data, i - 1))

\* RacingLineAnalyzer.analyze_braking_points: one record per braking_start;
\* zone_data is lap_data.loc[idx:] filtered by is_braking, that is every
\* braking sample from the start of the zone to the end of the lap.
analyze_braking_points(telemetry_df, vehicle_id, lap_num) ==
    LET lap_data == extract_racing_line(telemetry_df, vehicle_id, lap_num)
        starts == SelectSeq([i \in 1..Len(lap_data) |-> i],
                            LAMBDA i : BrakingStart(lap_data, i))
        zone(zone_start) ==
            LET zone_data == {i \in zone_start..Len(lap_data) : IsBraking(lap_data, i)}
                zone_end == CHOOSE i \in zone_data : \A j \in zone_data : j <= i
            IN  [start_distance |-> lap_data[zone_start].Laptrigger_lapdist_dls,
                 entry_speed |-> lap_data[zone_start].Speed,
                 exit_speed |-> lap_data[zone_end].Speed,
                 max_brake_pressure |->
                    CHOOSE m \in {lap_data[i].pbrake_f : i \in zone_data} :
                        \A i \in zone_data : lap_data[i].pbrake_f <= m,
                 max_decel_g |-> None,
                 duration_points |-> Cardinality(zone_data)]
    IN  [k \in 1..Len(starts) |-> zone(starts[k])]

(***************************************************************************)
(* 4.1 Telemetry resampler.  A text is a sequence of characters.  A cell   *)
(* of a frame is a string, an integer, or a float; the floats are the      *)
(* multiples of 1/Scale, a float cell holding the multiple.  A frame is    *)
(* its column names and its rows of cells.                                 *)
(***************************************************************************)
Scale == 600
KEY_PARAMETERS ==
    <<"speed", "aps", "ath", "pbrake_f", "pbrake_r", "gear", "nmot",
      "Steering_Angle", "accx_can", "accy_can", "VBOX_Long_Minutes",
      "VBOX_Lat_Min", "Laptrigger_lapdist_dls">>

StrCell(s) == [s |-> s]
IntCell(n) == [i |-> n]
FloatCell(h) == [f |-> h]
\* The float of t tenths.
Tenths(t) == FloatCell((Scale \div 10) * t)
IsInt(c) == DOMAIN c = {"i"}
IsFloat(c) == DOMAIN c = {"f"}
IsStr(c) == DOMAIN c = {"s"}

\* A DataFrame; pd.DataFrame() has no column and no row.
Frame(columns, rows) == [columns |-> columns, rows |-> rows]
EmptyFrame == Frame(<<>>, <<>>)

\* str.split(sep)
RECURSIVE SplitBy(_, _)
SplitBy(s, sep) ==
    IF Count(s, sep) = 0 THEN <<s>>
    ELSE LET k == IndexOf(s, sep)
         IN  <<SubSeq(s, 1, k - 1)>> \o SplitBy(SubSeq(s, k + 1, Len(s)), sep)

Unknown == <<"u", "n", "k", "n", "o", "w", "n">>
Unassigned == <<"u", "n", "a", "s", "s", "i", "g", "n", "e", "d">>

\* TelemetryProcessor.parse_vehicle_id: "GR86-004-78" is chassis "004",
\* car "78".
parse_vehicle_id(vehicle_id) ==
    LET parts == SplitBy(vehicle_id, "-")
    IN  IF Len(parts) >= 3
        THEN [chassis |-> parts[2],
              car_number |-> IF parts[3] # <<"0", "0", "0">> THEN parts[3]
                             ELSE Unassigned]
        ELSE [chassis |-> Unknown, car_number |-> Unknown]

\* TelemetryProcessor.get_default_value
get_default_value(param_name) ==
    IF param_name \in {"Gear", "gear"} THEN 4
    ELSE IF param_name \in {"nmotor", "nmot"} THEN 5000
    ELSE 0

\* (mutant) only the upper bound is applied.
ClampUpperOnly(lo, hi, val) ==
    IF val >= Scale * hi THEN IntCell(hi) ELSE FloatCell(val)

\* max(lo, min(hi, val)) on a float val and int bounds: Python returns the
\* int bound when val does not lie strictly inside.
Clamp(lo, hi, val) ==
    IF val >= Scale * hi THEN IF hi > lo THEN IntCell(hi) ELSE IntCell(lo)
    ELSE IF val <= Scale * lo THEN IntCell(lo)
    ELSE FloatCell(val)

\* float(value) succeeds with a finite number: on a float that is neither
\* NaN nor infinite and on a text that spells a number.
IsNumber(value) == IsFloat(value) \/ (IsStr(value) /\ FloatOk(value.s))
NumberOf(value) ==
    IF IsFloat(value) THEN value.f
    ELSE RoundHalfEven(Scale * FloatVal(value.s).m, Pow10(FloatVal(value.s).e))

\* TelemetryProcessor.clean_telemetry_value: value is a float, NaN, an
\* infinity or a text; the default stands in for NaN, for the infinities
\* and for a text that float() rejects.
clean_telemetry_value(value, param_name) ==
    IF ~IsNumber(value) THEN IntCell(get_default_value(param_name))
    ELSE LET val == NumberOf(value)
         IN  IF param_name \in {"aps", "ath"} THEN Clamp(0, 100, val)
             ELSE IF param_name \in {"pbrake_f", "pbrake_r"} THEN Clamp(0, 100, val)
             ELSE IF param_name \in {"Speed", "speed"} THEN Clamp(0, 250, val)
             ELSE IF param_name \in {"Gear", "gear"}
                  THEN IntCell(Max(0, Min(6, Trunc(val, Scale))))
             ELSE IF param_name \in {"nmotor", "nmot"} THEN Clamp(0, 8500, val)
             ELSE IF param_name = "Steering_Angle" THEN Clamp(-540, 540, val)
             ELSE IF param_name \in {"accx_can", "accy_can"} THEN Clamp(-3, 3, val)
             ELSE FloatCell(val)

\* Series.apply: a column of ints stays int64, a column holding a float is
\* float64 throughout.
AsColumn(cells) ==
    IF \A k \in 1..Len(cells) : IsInt(cells[k]) THEN cells
    ELSE [k \in 1..Len(cells) |->
            IF IsInt(cells[k]) THEN FloatCell(Scale * cells[k].i) ELSE cells[k]]

\* The characters of the model's texts in ASCII order.
Ascii ==
    <<"-", ".", "0", "1", "2", "3", "4", "5", "6", "7", "8", "9", ":",
      "G", "R", "T", "Z", "_", "a", "b", "c", "d", "e", "g", "i", "k", "n",
      "o", "s", "u", "w">>
Ord(c) == CHOOSE k \in 1..Len(Ascii) : Ascii[k] = c

\* a < b for texts, as Python orders str.
RECURSIVE TextLess(_, _)
TextLess(a, b) ==
    IF b = <<>> THEN FALSE
    ELSE IF a = <<>> THEN TRUE
    ELSE IF a[1] # b[1] THEN Ord(a[1]) < Ord(b[1])
    ELSE TextLess(Tail(a), Tail(b))

\* a <= b for tuples of texts, compared position by position.
RECURSIVE TupleLeq(_, _)
TupleLeq(a, b) ==
    IF a = <<>> THEN TRUE
    ELSE IF a[1] # b[1] THEN TextLess(a[1], b[1])
    ELSE TupleLeq(Tail(a), Tail(b))

\* The elements of a set of tuples of texts in ascending order.
RECURSIVE Sorted(_)
Sorted(S) ==
    IF S = {} THEN <<>>
    ELSE LET least == CHOOSE a \in S : \A b \in S : TupleLeq(a, b)
         IN  <<least>> \o Sorted(S \ {least})

\* pd.read_csv(telemetry_file, chunksize=chunk_size): the k-th chunk.
ChunkSize == 3
NumChunks(rows) == (Len(rows) + ChunkSize - 1) \div ChunkSize
Chunk(rows, k) == SubSeq(rows, (k - 1) * ChunkSize + 1, Min(k * ChunkSize, Len(rows)))

\* lap_chunk.iloc[::sample_rate]
Stride(rows, sample_rate) ==
    [j \in 1..((Len(rows) + sample_rate - 1) \div sample_rate) |->
        rows[(j - 1) * sample_rate + 1]]

\* (mutant) the rows are kept whatever their lap.
ScanAnyLap(rows, lap, sample_rate, k, lap_data) == Stride(rows, sample_rate)

\* The chunk loop of process_lap_telemetry from chunk k on, lap_data being
\* the rows kept so far: the rows of the chunk whose normalized lap is the
\* lap asked for are strided and kept; the loop stops at the end of the
\* file, or once rows are kept and more than 3 chunks' worth of rows is read.
RECURSIVE ScanChunks(_, _, _, _, _)
ScanChunks(rows, lap, sample_rate, k, lap_data) ==
    IF k > NumChunks(rows) THEN lap_data
    ELSE LET rows_processed == Min(k * ChunkSize, Len(rows))
             lap_chunk == SelectSeq(Chunk(rows, k),
                                    LAMBDA r : normalize_lap_number(r.lap) = lap)
             kept == lap_data \o Stride(lap_chunk, sample_rate)
         IN  IF kept # <<>> /\ rows_processed > ChunkSize * 3 THEN kept
             ELSE ScanChunks(rows, lap, sample_rate, k + 1, kept)

\* The index of a long-format row in the pivot.
IndexOfRow(r) == <<r.meta_time, r.timestamp, r.vehicle_id>>

\* aggfunc='first': the first value of the group that is not NaN, NaN when
\* there is none.
First(lap_data, idx, name) ==
    LET group == SelectSeq(lap_data, LAMBDA r : /\ IndexOfRow(r) = idx
                                                /\ r.telemetry_name = name
                                                /\ r.telemetry_value # NaN)
    IN  IF group = <<>> THEN NaN ELSE group[1].telemetry_value

\* sort_values('meta_time'): ascending, rows of equal time in order.
RECURSIVE SortByMetaTime(_)
SortByMetaTime(idxs) ==
    IF idxs = <<>> THEN <<>>
    ELSE LET last == idxs[Len(idxs)]
             init == SortByMetaTime(SubSeq(idxs, 1, Len(idxs) - 1))
             k == Cardinality({i \in 1..Len(init) : ~TextLess(last[1], init[i][1])})
         IN  SubSeq(init, 1, k) \o <<last>> \o SubSeq(init, k + 1, Len(init))

\* (mutant) the progress runs from 1/n to 1.
LinspaceFromFirstStep(n, k) == RoundHalfEven(Scale * k, n)

\* np.linspace(0, 1, n)[k - 1]: the float nearest to (k - 1)/(n - 1), which
\* is exact when n - 1 divides Scale.
Linspace(n, k) == IF n = 1 THEN 0 ELSE RoundHalfEven(Scale * (k - 1), n - 1)

\* process_lap_telemetry from the pivot on: lap_data (at least one row) is
\* pivoted to one row per (meta_time, timestamp, vehicle_id) with one column
\* per telemetry_name that has a value, the key parameters are kept and
\* cleaned, chassis, car_number, brake_total, throttle and lap_progress are
\* added and the rows are sorted by meta_time.
PivotAndClean(lap_data) ==
    LET valued == SelectSeq(lap_data, LAMBDA r : r.telemetry_value # NaN)
        names == {valued[k].telemetry_name : k \in 1..Len(valued)}
        idxs == SortByMetaTime(Sorted({IndexOfRow(valued[k]) : k \in 1..Len(valued)}))
        n == Len(idxs)
        available_params == SelectSeq(KEY_PARAMETERS, LAMBDA p : p \in names)
        param(p) == AsColumn([k \in 1..n |->
                        clean_telemetry_value(First(lap_data, idxs[k], p), p)])
        half(a, b) == FloatCell(((IF IsInt(a) THEN Scale * a.i ELSE a.f)
                                  + (IF IsInt(b) THEN Scale * b.i ELSE b.f)) \div 2)
        columns == <<"meta_time", "timestamp", "vehicle_id">> \o available_params
                    \o <<"chassis", "car_number">>
                    \o (IF {"pbrake_f", "pbrake_r"} \subseteq names
                        THEN <<"brake_total">> ELSE <<>>)
                    \o (IF "aps" \in names THEN <<"throttle">> ELSE <<>>)
                    \o <<"lap_progress">>
        cell(c, k) ==
            IF c = "meta_time" THEN StrCell(idxs[k][1])
            ELSE IF c = "timestamp" THEN StrCell(idxs[k][2])
            ELSE IF c = "vehicle_id" THEN StrCell(idxs[k][3])
            ELSE IF c = "chassis" THEN StrCell(parse_vehicle_id(idxs[k][3]).chassis)
            ELSE IF c = "car_number" THEN StrCell(parse_vehicle_id(idxs[k][3]).car_number)
            ELSE IF c = "brake_total"
                 THEN half(param("pbrake_f")[k], param("pbrake_r")[k])
            ELSE IF c = "throttle" THEN param("aps")[k]
            ELSE IF c = "lap_progress" THEN FloatCell(Linspace(n, k))
            ELSE param(c)[k]
    IN  Frame(columns, [k \in 1..n |-> [j \in 1..Len(columns) |-> cell(columns[j], k)]])

\* process_lap_telemetry when no cache file exists for the key: the chunk
\* loop, then pd.DataFrame() when no row was kept, the frame otherwise.
Resample(rows, lap, sample_rate) ==
    LET lap_data == ScanChunks(rows, lap, sample_rate, 1, <<>>)
    IN  IF lap_data = <<>> THEN EmptyFrame ELSE PivotAndClean(lap_data)

\* str(n) of an int.
RECURSIVE NatText(_)
NatText(n) == IF n < 10 THEN <<Digits[n + 1]>>
              ELSE Append(NatText(n \div 10), Digits[(n % 10) + 1])
IntText(n) == IF n < 0 THEN <<"-">> \o NatText(-n) ELSE NatText(n)

\* A run of decimals without its trailing zeros, one decimal at least.
RECURSIVE Trimmed(_)
Trimmed(ds) ==
    IF Len(ds) > 1 /\ ds[Len(ds)] = "0" THEN Trimmed(SubSeq(ds, 1, Len(ds) - 1)) ELSE ds

\* repr of the float h/Scale: "12.0", "12.5", "12.25", "0.333333"; six
\* decimals tell any two floats of the model apart.
FloatText(h) ==
    LET a == IF h < 0 THEN -h ELSE h
        micro == RoundHalfEven((a % Scale) * Pow10(6), Scale)
        frac == ThreeDigits(micro \div 1000) \o ThreeDigits(micro % 1000)
    IN  (IF h < 0 THEN <<"-">> ELSE <<>>) \o NatText(a \div Scale) \o <<".">>
            \o Trimmed(frac)

\* The text DataFrame.to_csv writes for a cell; NaN is written empty.
CellText(c) ==
    IF IsStr(c) THEN c.s
    ELSE IF IsInt(c) THEN IntText(c.i)
    ELSE IF IsFloat(c) THEN FloatText(c.f)
    ELSE <<>>

\* DataFrame.to_csv(index=False): the header line, then one line per row.
\* A line is the sequence of its fields.
ToCsv(frame) ==
    <<frame.columns>> \o
    [k \in 1..Len(frame.rows) |->
        [j \in 1..Len(frame.columns) |-> CellText(frame.rows[k][j])]]

Unsigned(t) == IF t # <<>> /\ t[1] = "-" THEN Tail(t) ELSE t
AllDigits(t) == t # <<>> /\ \A k \in 1..Len(t) : IsDigit(t[k])

\* The fields read_csv takes for an integer and for a float.
IsIntText(t) == AllDigits(Unsigned(t))
IsFloatText(t) ==
    LET u == Unsigned(t)
    IN  /\ Count(u, ".") = 1
        /\ AllDigits(SubSeq(u, 1, IndexOf(u, ".") - 1))
        /\ \A k \in (IndexOf(u, ".") + 1)..Len(u) : IsDigit(u[k])

IntOfText(t) ==
    IF t[1] = "-" THEN -DigitsValue(Tail(t)) ELSE DigitsValue(t)

\* The float a numeric field reads as: the nearest to its decimal value
\* (fields carry six decimals at most).
FloatOfText(t) ==
    LET u == Unsigned(t)
        dot == IF Count(u, ".") = 0 THEN Len(u) + 1 ELSE IndexOf(u, ".")
        frac == SubSeq(u, dot + 1, Min(Len(u), dot + 6))
        micro == DigitsValue(frac) * Pow10(6 - Len(frac))
        a == Scale * DigitsValue(SubSeq(u, 1, dot - 1))
                + RoundHalfEven(micro * Scale, Pow10(6))
    IN  IF t[1] = "-" THEN -a ELSE a

\* pd.read_csv on the lines of a file: the first line names the columns;
\* a column whose fields are all integers is int64, one whose fields are all
\* numbers or empty is float64, any other column holds its fields as
\* strings; an empty field, or one missing at the end of a line, is NaN.
\* A file without a line raises EmptyDataError.
ReadCsv(lines) ==
    LET columns == lines[1]
        n == Len(lines) - 1
        field(k, j) == IF j <= Len(lines[k + 1]) THEN lines[k + 1][j] ELSE <<>>
        ints(j) == \A k \in 1..n : IsIntText(field(k, j))
        nums(j) == \A k \in 1..n :
                        field(k, j) = <<>> \/ IsIntText(field(k, j)) \/ IsFloatText(field(k, j))
        cell(k, j) ==
            IF ints(j) THEN IntCell(IntOfText(field(k, j)))
            ELSE IF field(k, j) = <<>> THEN NaN
            ELSE IF nums(j) THEN FloatCell(FloatOfText(field(k, j)))
            ELSE StrCell(field(k, j))
    IN  IF lines = <<>> THEN Raised
        ELSE Frame(columns, [k \in 1..n |-> [j \in 1..Len(columns) |-> cell(k, j)]])

(***************************************************************************)
(* The state before any operation; each specification below starts here    *)
(* and drives one component.                                               *)
(***************************************************************************)
NoCallers == [p \in {} |-> None]

Idle ==
    /\ op = "idle"
    /\ arg = None
    /\ out = None
    /\ disk = NoCallers
    /\ pc = NoCallers
    /\ call = NoCallers
    /\ loc = NoCallers
    /\ res = NoCallers

Returns(name, a, r) ==
    /\ op' = name
    /\ arg' = a
    /\ out' = r
    /\ UNCHANGED <<laps, disk, pc, call, loc, res>>

(***************************************************************************)
(* SpecLapNumber: normalize_lap_number on every probed raw lap number.     *)
(***************************************************************************)
LapProbe == 103
LapInputs == ((-LapProbe)..LapProbe) \cup {SentinelLap - 1, SentinelLap, SentinelLap + 1}

NormalizeLap ==
    /\ op = "idle"
    /\ \E lap \in LapInputs :
        Returns("normalize_lap_number", lap, normalize_lap_number(lap))

InitLapNumber == Idle /\ laps = <<>>
NextLapNumber == NormalizeLap
SpecLapNumber == InitLapNumber /\ [][NextLapNumber]_vars

\* C8 (as stated): normalize_lap_number returns -1 for 32768 and for every
\* value outside [1,100], and returns every value inside [1,100] unchanged.
C8_InvalidOutside1To100 ==
    op = "normalize_lap_number" =>
        out = IF arg = 32768 \/ arg < 1 \/ arg > 100 THEN -1 ELSE arg

\* C8 (amended): normalize_lap_number returns -1 for 32768 and for every
\* value outside [0,100], and returns every value inside [0,100], lap 0
\* included, unchanged.
C8_InvalidOutside0To100 ==
    op = "normalize_lap_number" =>
        out = IF arg = 32768 \/ arg < 0 \/ arg > 100 THEN -1 ELSE arg

C8_Witness_LapZeroKept == op = "normalize_lap_number" /\ arg = 0 /\ out = 0

(***************************************************************************)
(* SpecParse: the lap-time parsers on every text over a small alphabet.    *)
(***************************************************************************)
MaxStrLen == 5
Alphabet == {"1", "2", "3", ":", ".", "a", "b", "c"}
Texts == UNION {[1..n -> Alphabet] : n \in 0..MaxStrLen}

ParseLoader ==
    /\ op = "idle"
    /\ \E s \in Texts : Returns("_time_to_seconds", s, time_to_seconds(s))

ParseStrategy ==
    /\ op = "idle"
    /\ \E s \in Texts : Returns("parse_time", s, parse_time(s))

InitParse == Idle /\ laps = <<>>
NextParse == ParseLoader \/ ParseStrategy
SpecParse == InitParse /\ [][NextParse]_vars

\* A well-formed time is a bare number or two numbers around one colon;
\* every other text is malformed.
WellFormedTime(s) ==
    \/ FloatOk(s)
    \/ Count(s, ":") = 1 /\ FloatOk(Split(s)[1]) /\ FloatOk(Split(s)[2])

\* C9: every lap-time parser returns the absent marker, and no number, for
\* every malformed time string, "abc" and "1:2:3" included.
C9_MalformedIsAbsent ==
    (op \in {"_time_to_seconds", "parse_time"} /\ ~WellFormedTime(arg)) => out = None

(***************************************************************************)
(* SpecPit: predict_pit_window on lap tables of one vehicle whose lap      *)
(* times move from lap to lap by one of Deltas (milliseconds).             *)
(***************************************************************************)
Vehicle == 13
BaseMs == 96000
MaxLaps == 6
MaxCurrentLap == 9
MaxTotalLaps == 10
Deltas == {-200, 2, 300}

RECURSIVE TimeSeqs(_)
TimeSeqs(n) ==
    IF n = 0 THEN {<<>>}
    ELSE IF n = 1 THEN {<<BaseMs>>}
    ELSE {Append(ts, ts[Len(ts)] + d) : ts \in TimeSeqs(n - 1), d \in Deltas}

\* Sector times that add up to the lap time.
SectorsOf(ms) == <<ms \div 3, ms \div 3, ms - 2 * (ms \div 3)>>

TableOf(ts) ==
    [i \in 1..Len(ts) |-> LoadRow(Vehicle, i, LapTimeText(ts[i]), SectorsOf(ts[i]), 120)]

PitTables == {TableOf(ts) : ts \in UNION {TimeSeqs(n) : n \in 0..MaxLaps}}

PredictPitWindow ==
    /\ op = "idle"
    /\ \E cur \in 1..MaxCurrentLap, tot \in 1..MaxTotalLaps :
        /\ cur <= tot
        /\ Returns("predict_pit_window", [current_lap |-> cur, total_laps |-> tot],
                   predict_pit_window(laps, Vehicle, cur, tot))

InitPit == Idle /\ laps \in PitTables
NextPit == PredictPitWindow
SpecPit == InitPit /\ [][NextPit]_vars

Recommends(r) == "message" \in DOMAIN r /\ r.message # "Insufficient data"

StrictlyIncreasing(df) ==
    \A i \in 1..(Len(df) - 1) :
        /\ df[i].lap_time_seconds # NaN /\ df[i + 1].lap_time_seconds # NaN
        /\ df[i].lap_time_seconds.v < df[i + 1].lap_time_seconds.v

\* C4 (as stated): for a vehicle whose lap times are strictly increasing, and
\* for every current_lap and total_laps, the pit_lap that predict_pit_window
\* returns satisfies current_lap+1 <= pit_lap <= total_laps-2.
C4_PitLapInWindow ==
    (op = "predict_pit_window" /\ StrictlyIncreasing(laps) /\ Recommends(out)) =>
        /\ arg.current_lap + 1 <= out.pit_lap
        /\ out.pit_lap <= arg.total_laps - 2

\* C4 (amended): for a vehicle with strictly increasing lap times and a
\* fitted degradation rate above 0.01 s/lap, pit_lap >= current_lap+1 always
\* and pit_lap <= total_laps-2 whenever current_lap+1 <= total_laps-2
\* (otherwise pit_lap = current_lap+1); with a rate of at most 0.01 s/lap
\* pit_lap is total_laps-1.
C4_PitLapClamped ==
    (op = "predict_pit_window" /\ StrictlyIncreasing(laps) /\ Recommends(out)) =>
        IF out.message = "Pit recommended"
        THEN /\ arg.current_lap + 1 <= out.pit_lap
             /\ arg.current_lap + 1 <= arg.total_laps - 2 => out.pit_lap <= arg.total_laps - 2
             /\ arg.current_lap + 1 > arg.total_laps - 2 => out.pit_lap = arg.current_lap + 1
        ELSE out.pit_lap = arg.total_laps - 1

\* The projected lap lies beyond the window and is clamped to total_laps-2.
C4_Witness_ClampedToEnd ==
    /\ op = "predict_pit_window" /\ StrictlyIncreasing(laps)
    /\ Recommends(out) /\ out.message = "Pit recommended"
    /\ arg.current_lap + 1 < arg.total_laps - 2
    /\ out.pit_lap = arg.total_laps - 2
    /\ arg.current_lap + out.laps_remaining > arg.total_laps - 2

\* C12: predict_pit_window requires a minimum of 3 laps: with fewer than 3
\* laps of the vehicle it returns pit_lap absent, confidence 0 and the
\* message 'Insufficient data'; with at least 3 laps it returns a fitted
\* recommendation with a pit_lap.
C12_MinimumThreeLaps ==
    op = "predict_pit_window" =>
        IF Len(VehicleRows(laps, Vehicle)) < 3
        THEN out = [pit_lap |-> None, confidence |-> 0, message |-> "Insufficient data"]
        ELSE Recommends(out)

\* C25: the regression in predict_pit_window is fitted on the most recent
\* window of the vehicle's laps: at most 5 laps, none with a lap number
\* greater than current_lap (with fewer than 5 laps in the table, all of
\* them that are not beyond current_lap).
C25_WindowOfFiveUpToCurrentLap ==
    (op = "predict_pit_window" /\ out.message # "Insufficient data") =>
        LET window == RecentLaps(analyze_lap_degradation(laps, Vehicle), arg.current_lap)
        IN  /\ Len(window) <= 5
            /\ \A i \in 1..Len(window) : window[i].LAP_NUMBER <= arg.current_lap

(***************************************************************************)
(* SpecPitExtend: predict_pit_window on a lap table and on the same table  *)
(* extended by further laps, with the same current_lap and total_laps.     *)
(***************************************************************************)
PredictPitWindowExtended ==
    /\ op = "idle"
    /\ \E cur \in 1..MaxCurrentLap, tot \in 1..MaxTotalLaps, k \in 0..(Len(laps) - 1) :
        /\ cur <= tot
        /\ Returns("predict_pit_window twice",
                   [current_lap |-> cur, total_laps |-> tot, first_laps |-> k],
                   [first |-> predict_pit_window(SubSeq(laps, 1, k), Vehicle, cur, tot),
                    second |-> predict_pit_window(laps, Vehicle, cur, tot)])

InitPitExtend == Idle /\ laps \in PitTables
NextPitExtend == PredictPitWindowExtended
SpecPitExtend == InitPitExtend /\ [][NextPitExtend]_vars

\* C5: the confidence of predict_pit_window is non-decreasing in the laps
\* supplied: for a lap table and its extension by further laps of the same
\* vehicle, with the same current_lap and total_laps, the confidence for the
\* extension is at least the confidence for the table.
C5_ConfidenceMonotone ==
    op = "predict_pit_window twice" => out.second.confidence >= out.first.confidence

(***************************************************************************)
(* SpecFuel: calculate_fuel_strategy on lap tables of up to MaxFuelLaps    *)
(* laps with average speeds from SpeedsKph, with the current fuel inferred *)
(* (None) or supplied in steps of FuelStepMl millilitres.                  *)
(***************************************************************************)
MaxFuelLaps == 3
FuelStepMl == 20
MaxFuelSteps == 30
SpeedsKph == {90, 120, 150}

FuelTableOf(ks) ==
    [i \in 1..Len(ks) |->
        LoadRow(Vehicle, i, LapTimeText(BaseMs), SectorsOf(BaseMs), ks[i])]

FuelTables == {FuelTableOf(ks) : ks \in UNION {[1..n -> SpeedsKph] : n \in 0..MaxFuelLaps}}

FuelInputs == {None} \cup {Num(k * FuelStepMl) : k \in 0..MaxFuelSteps}

CalculateFuelStrategy ==
    /\ op = "idle"
    /\ \E cur \in 1..MaxCurrentLap, tot \in 1..MaxTotalLaps, fuel \in FuelInputs :
        /\ cur <= tot
        /\ Returns("calculate_fuel_strategy",
                   [current_lap |-> cur, total_laps |-> tot, current_fuel |-> fuel],
                   calculate_fuel_strategy(laps, Vehicle, cur, tot, fuel))

InitFuel == Idle /\ laps \in FuelTables
NextFuel == CalculateFuelStrategy
SpecFuel == InitFuel /\ [][NextFuel]_vars

\* current_fuel >= (total_laps - current_lap) * adjusted consumption, exactly.
FuelCoversRace(df, a) ==
    LET adj == AdjustedConsumption(VehicleRows(df, Vehicle))
    IN  a.current_fuel.v * adj.den >= (a.total_laps - a.current_lap) * adj.num

\* C6: for every call of calculate_fuel_strategy on a vehicle present in the
\* table with a supplied current_fuel of at least (total_laps - current_lap)
\* times the adjusted per-lap consumption, the result has needs_pit = false.
C6_SufficientFuelNoPit ==
    (/\ op = "calculate_fuel_strategy"
     /\ Len(VehicleRows(laps, Vehicle)) > 0
     /\ arg.current_fuel # None
     /\ FuelCoversRace(laps, arg)) => out.needs_pit = FALSE

\* a <= b on fractions with positive denominators.
FracLeq(a, b) == a.num * b.den <= b.num * a.den

\* C21: whenever calculate_fuel_strategy reports needs_pit = true,
\* recommended_pit_lap equals max(current_lap + 1, current_lap +
\* laps_on_current_fuel - 2), and fuel_to_add equals the lesser of (tank
\* capacity - current fuel) and (total_laps - recommended_pit_lap) times the
\* adjusted per-lap consumption.
C21_PitLapAndFuelToAdd ==
    (/\ op = "calculate_fuel_strategy"
     /\ Len(VehicleRows(laps, Vehicle)) > 0
     /\ out.needs_pit) =>
        LET adj == AdjustedConsumption(VehicleRows(laps, Vehicle))
            room == Frac(TankMl * out.current_fuel.den - out.current_fuel.num,
                         out.current_fuel.den)
            to_finish == Frac((arg.total_laps - out.recommended_pit_lap) * adj.num,
                              adj.den)
        IN  /\ out.recommended_pit_lap =
                   Max(arg.current_lap + 1,
                       arg.current_lap + out.laps_on_current_fuel - 2)
            /\ out.fuel_to_add \in {room, to_finish}
            /\ FracLeq(out.fuel_to_add, room)
            /\ FracLeq(out.fuel_to_add, to_finish)

\* A pit stop is needed with fuel for at most two laps, where the floor
\* current_lap + 1 decides the pit lap.
C21_Witness_FloorDecides ==
    /\ op = "calculate_fuel_strategy"
    /\ Len(VehicleRows(laps, Vehicle)) > 0
    /\ out.needs_pit
    /\ out.laps_on_current_fuel <= 2
    /\ out.recommended_pit_lap = arg.current_lap + 1
    /\ out.fuel_to_add.num > 0

\* C30: whenever calculate_fuel_strategy reports needs_pit = true, the
\* recommended pit lap is reachable on the current fuel and the refuel
\* amount is sane: recommended_pit_lap <= current_lap +
\* laps_on_current_fuel, recommended_pit_lap <= total_laps and
\* fuel_to_add >= 0, for every current_lap, total_laps and current fuel
\* (supplied or inferred).
C30_PitLapReachable ==
    (/\ op = "calculate_fuel_strategy"
     /\ Len(VehicleRows(laps, Vehicle)) > 0
     /\ out.needs_pit) =>
        /\ out.recommended_pit_lap <= arg.current_lap + out.laps_on_current_fuel
        /\ out.recommended_pit_lap <= arg.total_laps
        /\ out.fuel_to_add.num >= 0

(***************************************************************************)
(* SpecStrategy: calculate_optimal_pit_strategy on lap tables of up to     *)
(* MaxStratLaps laps whose lap times change by a fixed step per lap.       *)
(***************************************************************************)
MaxStratLaps == 11
StratSteps == {-100, 0, 4, 250}

StratTables ==
    {TableOf([i \in 1..n |-> BaseMs + 2000 + (i - 1) * d]) :
        n \in 0..MaxStratLaps, d \in StratSteps}

CalculateOptimalPitStrategy ==
    /\ op = "idle"
    /\ \E cur \in 1..MaxCurrentLap, tot \in 1..MaxTotalLaps :
        /\ cur <= tot
        /\ Returns("calculate_optimal_pit_strategy",
                   [current_lap |-> cur, total_laps |-> tot],
                   calculate_optimal_pit_strategy(laps, Vehicle, cur, tot))

InitStrategy == Idle /\ laps \in StratTables
NextStrategy == CalculateOptimalPitStrategy
SpecStrategy == InitStrategy /\ [][NextStrategy]_vars

\* C7: calculate_optimal_pit_strategy searches every candidate pit lap from
\* current_lap+1 to total_laps-2 inclusive and returns as optimal_pit_lap a
\* candidate of least total cost (degradation before the stop + the stop +
\* 30% of the degradation after it) among them, with time_lost_with_pit
\* equal to that least cost.
C7_OptimalAmongAllCandidates ==
    (/\ op = "calculate_optimal_pit_strategy"
     /\ "error" \notin DOMAIN out
     /\ (arg.current_lap + 1)..(arg.total_laps - 2) # {}) =>
        LET cost(p) == PitCost(out.degradation_rate, arg.current_lap, arg.total_laps, p)
        IN  /\ out.optimal_pit_lap \in (arg.current_lap + 1)..(arg.total_laps - 2)
            /\ \A q \in (arg.current_lap + 1)..(arg.total_laps - 2) :
                   cost(out.optimal_pit_lap).num <= cost(q).num
            /\ out.time_lost_with_pit = Num(Round2(cost(out.optimal_pit_lap)))

\* A reported figure that is a number, neither inf nor -inf.
Finite(x) == DOMAIN x = {"v"}

\* C29: the result of calculate_optimal_pit_strategy is always well-formed:
\* for every current_lap and total_laps with at least 5 laps of history,
\* optimal_pit_lap lies in [current_lap+1, total_laps-2] and
\* time_lost_with_pit and time_saved_seconds are finite numbers, also when
\* current_lap >= total_laps-3 and the candidate range is empty or a single
\* lap.
C29_StrategyWellFormed ==
    (op = "calculate_optimal_pit_strategy" /\ "error" \notin DOMAIN out) =>
        /\ out.optimal_pit_lap \in (arg.current_lap + 1)..(arg.total_laps - 2)
        /\ Finite(out.time_lost_with_pit)
        /\ Finite(out.time_saved_seconds)

(***************************************************************************)
(* SpecSparse: the five derived-quantity functions on lap tables in which  *)
(* the vehicle has 0..MaxSparseLaps rows and any of its LAP_TIME texts     *)
(* may fail to parse; a competitor with complete rows may be present.      *)
(***************************************************************************)
MaxSparseLaps == 6
Competitor == 7
SparseTimes == {BaseMs, BaseMs + 300}
BadText == <<"a", "b", "c">>
SparseTexts == {LapTimeText(ms) : ms \in SparseTimes} \cup {BadText}
SparseLaps == {3, 6}
SparseTotalLaps == 10

RECURSIVE TextSeqs(_)
TextSeqs(n) ==
    IF n = 0 THEN {<<>>}
    ELSE {Append(ts, t) : ts \in TextSeqs(n - 1), t \in SparseTexts}

SparseTableOf(ts) ==
    [i \in 1..Len(ts) |-> LoadRow(Vehicle, i, ts[i], SectorsOf(BaseMs), 120)]

CompetitorRows(n) ==
    [i \in 1..n |-> LoadRow(Competitor, i, LapTimeText(BaseMs + 100),
                             SectorsOf(BaseMs + 100), 120)]

SparseTables ==
    {CompetitorRows(c) \o SparseTableOf(ts) :
        c \in {0, 3}, ts \in UNION {TextSeqs(n) : n \in 0..MaxSparseLaps}}

SparsePitWindow ==
    /\ op = "idle"
    /\ \E cur \in SparseLaps :
        Returns("predict_pit_window", [current_lap |-> cur, total_laps |-> SparseTotalLaps],
                predict_pit_window(laps, Vehicle, cur, SparseTotalLaps))

SparseFuelStrategy ==
    /\ op = "idle"
    /\ \E cur \in SparseLaps :
        Returns("calculate_fuel_strategy",
                [current_lap |-> cur, total_laps |-> SparseTotalLaps],
                calculate_fuel_strategy(laps, Vehicle, cur, SparseTotalLaps, None))

SparseRacePace ==
    /\ op = "idle"
    /\ \E cur \in SparseLaps :
        Returns("analyze_race_pace", [current_lap |-> cur],
                analyze_race_pace(laps, Vehicle, cur))

SparseOptimalPit ==
    /\ op = "idle"
    /\ \E cur \in SparseLaps :
        Returns("calculate_optimal_pit_strategy",
                [current_lap |-> cur, total_laps |-> SparseTotalLaps],
                calculate_optimal_pit_strategy(laps, Vehicle, cur, SparseTotalLaps))

SparseCoaching ==
    /\ op = "idle"
    /\ \E s \in {SectorsOf(BaseMs), SectorsOf(BaseMs + 600)} :
        Returns("find_coaching_opportunities", [current_lap_data |-> s],
                find_coaching_opportunities(laps, Vehicle, s))

InitSparse == Idle /\ laps \in SparseTables
NextSparse ==
    \/ SparsePitWindow
    \/ SparseFuelStrategy
    \/ SparseRacePace
    \/ SparseOptimalPit
    \/ SparseCoaching
SpecSparse == InitSparse /\ [][NextSparse]_vars

\* C10: no derived-quantity function throws for data sparsity: whatever rows
\* the vehicle has and whichever of its lap times failed to parse, each of
\* predict_pit_window, calculate_fuel_strategy, analyze_race_pace,
\* calculate_optimal_pit_strategy and find_coaching_opportunities returns a
\* record or an error marker, never an exception.
C10_NeverRaises == op # "idle" => out # Raised


\* C11: analyze_race_pace returns an error record, and no pace metric,
\* whenever the vehicle has fewer than 3 validly parsed lap times among its
\* laps with lap number <= current_lap; rows whose lap time fails to parse
\* do not count towards the 3.
C11_PaceNeedsThreeValidLaps ==
    (/\ op = "analyze_race_pace"
     /\ Len(ParsedTimes(RowsUpTo(laps, Vehicle, arg.current_lap))) < 3) =>
        DOMAIN out = {"error"}

(***************************************************************************)
(* SpecCache and SpecWarm: calls of process_lap_telemetry over the cache   *)
(* directory.  disk maps the cache paths that exist to the lines of the    *)
(* file; pc, call and loc hold the position, the arguments and the locals  *)
(* of the calls in progress, by caller; res lists the calls that returned, *)
(* in order.  SpecCache runs two callers side by side, SpecWarm one caller *)
(* whose calls follow each other.                                          *)
(***************************************************************************)
MaxCalls == 3
Callers == {"a", "b"}
Track == "barber"
Race == 1
CacheLaps == {1, 99}
SampleRates == {1, 2}

T(n) == <<"T", Digits[n + 1]>>
Z(n) == <<"Z", Digits[n + 1]>>
Gr86(chassis, car) == <<"G", "R", "8", "6", "-">> \o chassis \o <<"-">> \o car

\* One line of a telemetry file (long format).
Row(lap, n, vehicle_id, name, value) ==
    [lap |-> lap, meta_time |-> T(n), timestamp |-> Z(n), vehicle_id |-> vehicle_id,
     telemetry_name |-> name, telemetry_value |-> value]

Car78 == Gr86(<<"0", "0", "4">>, <<"7", "8">>)
Car000 == Gr86(<<"0", "1", "0">>, <<"0", "0", "0">>)

\* The telemetry files: lap 1 of one car at two or three instants, a row
\* with the error lap 32768 and the start of lap 2.
Files ==
    [R1 |-> <<Row(1, 1, Car78, "speed", Tenths(1205)),
              Row(1, 1, Car78, "pbrake_f", Tenths(105)),
              Row(1, 1, Car78, "pbrake_r", Tenths(0)),
              Row(1, 2, Car78, "speed", Tenths(3000)),
              Row(1, 2, Car78, "gear", Tenths(30)),
              Row(SentinelLap, 2, Car78, "speed", Tenths(900)),
              Row(1, 2, Car78, "pbrake_f", NaN),
              Row(2, 3, Car78, "speed", Tenths(1000))>>,
     R2 |-> <<Row(1, 1, Car000, "speed", Tenths(800)),
              Row(1, 1, Car000, "aps", Tenths(1000)),
              Row(1, 2, Car000, "aps", Tenths(1500)),
              Row(1, 3, Car000, "speed", Tenths(900)),
              Row(2, 4, Car000, "speed", Tenths(950))>>]

\* get_cache_path: {track}_R{race}_lap{lap}.csv under the cache directory.
get_cache_path(track, race, lap) == <<track, race, lap>>
PathOf(c) == get_cache_path(c.track, c.race, c.lap)

\* A stretch of a file that no writer has filled.
Hole == [hole |-> TRUE]

\* The file after a writer puts line at position i.
WriteAt(content, i, line) ==
    [k \in 1..Max(Len(content), i) |->
        IF k = i THEN line ELSE IF k <= Len(content) THEN content[k] ELSE Hole]

\* What read_csv makes of the lines it finds.  The code does not determine
\* the parse of a file with an unfilled stretch or with a line of more
\* fields than the header names: the parser fails, or reads what fits.
Fitting(content) ==
    LET there == SelectSeq(content, LAMBDA l : l # Hole)
    IN  [k \in 1..Len(there) |-> SubSeq(there[k], 1, Min(Len(there[k]), Len(there[1])))]

ReadOutcomes(content) ==
    IF Fitting(content) # content THEN {Raised, ReadCsv(Fitting(content))}
    ELSE {ReadCsv(content)}

Remove(f, p) == [q \in DOMAIN f \ {p} |-> f[q]]

\* The call of caller p returns frame.
Return(p, frame, scanned) ==
    /\ res' = Append(res, [caller |-> p, call |-> call[p], result |-> frame,
                           scanned |-> scanned])
    /\ pc' = Remove(pc, p)
    /\ call' = Remove(call, p)
    /\ loc' = Remove(loc, p)

\* A caller enters process_lap_telemetry.
Begin(p) ==
    /\ p \notin DOMAIN pc
    /\ Len(res) + Cardinality(DOMAIN pc) < MaxCalls
    /\ \E f \in DOMAIN Files, lap \in CacheLaps, rate \in SampleRates :
        call' = (p :> [telemetry_file |-> f, lap |-> lap, track |-> Track,
                       race |-> Race, sample_rate |-> rate, began |-> Len(res)]) @@ call
    /\ pc' = (p :> "load_from_cache") @@ pc
    /\ loc' = (p :> None) @@ loc
    /\ UNCHANGED <<op, arg, out, laps, disk, res>>

\* load_from_cache: os.path.exists(cache_path)
Exists(p) ==
    /\ p \in DOMAIN pc /\ pc[p] = "load_from_cache"
    /\ pc' = [pc EXCEPT ![p] = IF PathOf(call[p]) \in DOMAIN disk
                               THEN "read_csv" ELSE "scan"]
    /\ UNCHANGED <<op, arg, out, laps, disk, call, loc, res>>

\* load_from_cache: pd.read_csv(cache_path), and the return of the frame.
ReadCached(p) ==
    /\ p \in DOMAIN pc /\ pc[p] = "read_csv"
    /\ \E cached \in ReadOutcomes(disk[PathOf(call[p])]) : Return(p, cached, FALSE)
    /\ UNCHANGED <<op, arg, out, laps, disk>>

\* The chunk loop over the telemetry file; without a row for the lap the
\* call returns pd.DataFrame(), otherwise it goes on to the frame.
Scan(p) ==
    /\ p \in DOMAIN pc /\ pc[p] = "scan"
    /\ LET lap_data == ScanChunks(Files[call[p].telemetry_file], call[p].lap,
                                  call[p].sample_rate, 1, <<>>)
       IN  IF lap_data = <<>>
           THEN Return(p, EmptyFrame, TRUE)
           ELSE /\ loc' = [loc EXCEPT ![p] = [pivoted |-> PivotAndClean(lap_data),
                                             written |-> 0]]
                /\ pc' = [pc EXCEPT ![p] = "save_to_cache"]
                /\ UNCHANGED <<call, res>>
    /\ UNCHANGED <<op, arg, out, laps, disk>>

\* save_to_cache: to_csv opens cache_path for writing, which creates the
\* file or empties it.
Open(p) ==
    /\ p \in DOMAIN pc /\ pc[p] = "save_to_cache"
    /\ disk' = [q \in DOMAIN disk \cup {PathOf(call[p])} |->
                    IF q = PathOf(call[p]) THEN <<>> ELSE disk[q]]
    /\ pc' = [pc EXCEPT ![p] = "to_csv"]
    /\ UNCHANGED <<op, arg, out, laps, call, loc, res>>

\* save_to_cache: to_csv writes the next line at the writer's position; the
\* call returns the frame once the last line is written.
Write(p) ==
    /\ p \in DOMAIN pc /\ pc[p] = "to_csv"
    /\ LET lines == ToCsv(loc[p].pivoted)
           i == loc[p].written + 1
       IN  /\ disk' = [disk EXCEPT ![PathOf(call[p])] = WriteAt(@, i, lines[i])]
           /\ IF i = Len(lines)
              THEN Return(p, loc[p].pivoted, TRUE)
              ELSE /\ loc' = [loc EXCEPT ![p].written = i]
                   /\ UNCHANGED <<pc, call, res>>
    /\ UNCHANGED <<op, arg, out, laps>>

Step(p) ==
    \/ Begin(p)
    \/ Exists(p)
    \/ ReadCached(p)
    \/ Scan(p)
    \/ Open(p)
    \/ Write(p)

InitCache == Idle /\ laps = <<>>
NextCache == \E p \in Callers : Step(p)
SpecCache == InitCache /\ [][NextCache]_vars

InitWarm == Idle /\ laps = <<>>
NextWarm == Step("a")
SpecWarm == InitWarm /\ [][NextWarm]_vars

SameKey(c, d) == PathOf(c) = PathOf(d)
SameArguments(c, d) ==
    /\ SameKey(c, d)
    /\ c.telemetry_file = d.telemetry_file
    /\ c.sample_rate = d.sample_rate

\* The frames that calls have produced for the key of call c: by calls that
\* returned after scanning, and by calls that are saving.
ProducedFor(c) ==
    {res[k].result : k \in {j \in 1..Len(res) : /\ res[j].scanned
                                                 /\ res[j].result # EmptyFrame
                                                 /\ SameKey(res[j].call, c)}}
    \cup {loc[p].pivoted : p \in {q \in DOMAIN pc : loc[q] # None /\ SameKey(call[q], c)}}

\* C1: a call that finds the cache file of its key while another call is
\* writing it never observes a partially written file: a call that returned
\* without scanning loaded the complete frame that a writer of the key
\* produced (as read back from its complete file).
C1_ReaderSeesCompleteFile ==
    \A k \in 1..Len(res) :
        ~res[k].scanned =>
            \E w \in ProducedFor(res[k].call) : res[k].result = ReadCsv(ToCsv(w))

\* C2: with an unchanged source file, a call that follows a cold-cache call
\* with the same arguments (and so finds the cache warm) returns a frame
\* identical to the one the cold call returned.
C2_WarmEqualsCold ==
    \A i, j \in 1..Len(res) :
        (i < j /\ res[i].scanned /\ SameArguments(res[i].call, res[j].call)) =>
            res[j].result = res[i].result

\* C3: once a call for a key has returned the key is cached, whatever the
\* outcome of the call, and no call for the key that begins afterwards scans
\* the source file.
C3_CompletedKeyIsCached ==
    \A k \in 1..Len(res) :
        /\ PathOf(res[k].call) \in DOMAIN disk
        /\ \A j \in 1..Len(res) :
            (res[j].call.began >= k /\ SameKey(res[j].call, res[k].call)) =>
                ~res[j].scanned

\* The frame that a call with the arguments of c computes from its file.
FrameOf(c) == Resample(Files[c.telemetry_file], c.lap, c.sample_rate)

\* C26: the frame returned by process_lap_telemetry is determined by its
\* arguments and the source file alone: two calls with the same
\* telemetry_file, lap, track, race and sample_rate return the same frame
\* whatever calls were made before them.  A call made first finds no cache
\* and returns FrameOf of its arguments, so every call returns that frame.
C26_FrameDeterminedByArguments ==
    \A k \in 1..Len(res) : res[k].result = FrameOf(res[k].call)

(***************************************************************************)
(* SpecBraking: analyze_braking_points on one lap of one car, the samples  *)
(* in order of distance with front brake pressures from BrakePressures.    *)
(***************************************************************************)
MaxSamples == 6
BrakePressures == {0, 10, 11, 30}
BrakingLap == 1

RECURSIVE PressureSeqs(_)
PressureSeqs(n) ==
    IF n = 0 THEN {<<>>}
    ELSE {Append(ps, b) : ps \in PressureSeqs(n - 1), b \in BrakePressures}

\* The sample at position i slows with the distance, so that the speed
\* tells the samples apart.
SamplesOf(ps) ==
    [i \in 1..Len(ps) |->
        [vehicle_id |-> Car78, lap |-> BrakingLap, pbrake_f |-> ps[i],
         Speed |-> 200 - 10 * i, Laptrigger_lapdist_dls |-> 50 * i]]

BrakingFrames == {SamplesOf(ps) : ps \in UNION {PressureSeqs(n) : n \in 0..MaxSamples}}

AnalyzeBrakingPoints ==
    /\ op = "idle"
    /\ \E df \in BrakingFrames :
        Returns("analyze_braking_points", [telemetry_df |-> df],
                analyze_braking_points(df, Car78, BrakingLap))

InitBraking == Idle /\ laps = <<>>
NextBraking == AnalyzeBrakingPoints
SpecBraking == InitBraking /\ [][NextBraking]_vars

\* The last sample of the run of braking samples that starts at sample s.
RunEnd(df, s) ==
    CHOOSE e \in s..Len(df) :
        /\ \A i \in s..e : IsBraking(df, i)
        /\ e = Len(df) \/ ~IsBraking(df, e + 1)

\* C13: analyze_braking_points reports exactly one zone per rising edge of
\* the mask pbrake_f > 10, and each zone describes its own run of
\* above-threshold samples only: duration_points is the length of the run
\* that starts at the rising edge, exit_speed the speed at the last sample of
\* the run and max_brake_pressure the maximum over the run.
C13_ZoneDescribesItsRun ==
    op = "analyze_braking_points" =>
        LET df == arg.telemetry_df
            edges == SelectSeq([i \in 1..Len(df) |-> i], LAMBDA i : BrakingStart(df, i))
        IN  /\ Len(out) = Len(edges)
            /\ \A k \in 1..Len(edges) :
                LET s == edges[k]
                    e == RunEnd(df, s)
                IN  /\ out[k].entry_speed = df[s].Speed
                    /\ out[k].duration_points = e - s + 1
                    /\ out[k].exit_speed = df[e].Speed
                    /\ \A i \in s..e : df[i].pbrake_f <= out[k].max_brake_pressure
                    /\ \E i \in s..e : df[i].pbrake_f = out[k].max_brake_pressure

(***************************************************************************)
(* SpecResample: process_lap_telemetry with an empty cache on telemetry    *)
(* files that carry, for lap 1 of one car, up to MaxInstants instants of   *)
(* one channel with raw values below, at, inside and above the range of    *)
(* the channel, NaN, an infinity and texts, and one row of a second        *)
(* channel; then a row with the error lap and a row of lap 2.              *)
(***************************************************************************)
MaxInstants == 5
RequestLaps == {1, 99, SentinelLap, InvalidLap}

\* The range each channel is declared to lie in after cleaning.
ChannelRange ==
    [aps |-> <<0, 100>>, ath |-> <<0, 100>>, pbrake_f |-> <<0, 100>>,
     pbrake_r |-> <<0, 100>>, speed |-> <<0, 250>>, gear |-> <<0, 6>>,
     nmot |-> <<0, 8500>>, Steering_Angle |-> <<-540, 540>>,
     accx_can |-> <<-3, 3>>, accy_can |-> <<-3, 3>>]

ResampleChannels == DOMAIN ChannelRange \cup {"VBOX_Lat_Min", "oil_temp"}

RawValues(c) ==
    LET lo == IF c \in DOMAIN ChannelRange THEN ChannelRange[c][1] ELSE 0
        hi == IF c \in DOMAIN ChannelRange THEN ChannelRange[c][2] ELSE 10
    IN  <<Tenths(10 * lo - 15), Tenths(10 * lo), Tenths(10 * lo + 5),
          Tenths(10 * hi), Tenths(10 * hi + 15), NaN, Inf, StrCell(BadText),
          StrCell(<<"2", ".", "5">>)>>

FileOf(c, offset, n) ==
    <<Row(1, 1, Car78, IF c = "pbrake_r" THEN "pbrake_f" ELSE "pbrake_r", Tenths(205))>>
    \o [i \in 1..n |->
            Row(1, i, Car78, c, RawValues(c)[((offset + i - 1) % 9) + 1])]
    \o <<Row(SentinelLap, n + 1, Car78, "speed", Tenths(900)),
         Row(2, n + 2, Car78, "speed", Tenths(1000))>>

ResampleFiles ==
    {FileOf(c, o, n) : c \in ResampleChannels, o \in 0..8, n \in 0..MaxInstants}

\* process_lap_telemetry(telemetry_file, lap, track, race, sample_rate) with
\* no cache file for the key: the frame is computed, saved when it has a
\* row, and returned.
ProcessLapTelemetry ==
    /\ op = "idle"
    /\ \E rows \in ResampleFiles, lap \in RequestLaps, rate \in SampleRates :
        LET frame == Resample(rows, lap, rate)
        IN  /\ op' = "process_lap_telemetry"
            /\ arg' = [telemetry_file |-> rows, lap |-> lap, sample_rate |-> rate]
            /\ out' = frame
            /\ disk' = IF frame = EmptyFrame THEN disk
                       ELSE (get_cache_path(Track, Race, lap) :> ToCsv(frame)) @@ disk
    /\ UNCHANGED <<laps, pc, call, loc, res>>

InitResample == Idle /\ laps = <<>>
NextResample == ProcessLapTelemetry
SpecResample == InitResample /\ [][NextResample]_vars

\* No row of the file has the lap asked for as its normalized lap.
NoRowMatches(a) ==
    \A i \in 1..Len(a.telemetry_file) :
        normalize_lap_number(a.telemetry_file[i].lap) # a.lap

\* C14: when process_lap_telemetry finds no row whose normalized lap equals
\* the requested lap it returns an empty frame and raises nothing, for every
\* requested lap and every source file.
C14_NoMatchGivesEmptyFrame ==
    (op = "process_lap_telemetry" /\ NoRowMatches(arg)) =>
        out = EmptyFrame

\* A file with rows of other laps is asked for lap 99.
C14_Witness_Lap99 ==
    /\ op = "process_lap_telemetry" /\ arg.lap = 99
    /\ Len(arg.telemetry_file) > 3
    /\ out = EmptyFrame

Column(frame, name) ==
    LET j == CHOOSE i \in 1..Len(frame.columns) : frame.columns[i] = name
    IN  [k \in 1..Len(frame.rows) |-> frame.rows[k][j]]

Returned(frame) == op = "process_lap_telemetry" /\ frame # EmptyFrame /\ Len(frame.rows) >= 1

\* The rows are in time order and the lap_progress values p are floats in
\* [0,1] that start at 0, end at 1 and rise by equal increments.
UniformProgress(frame) ==
    LET t == Column(frame, "meta_time")
        p == Column(frame, "lap_progress")
        n == Len(p)
    IN  /\ \A k \in 1..(n - 1) : ~TextLess(t[k + 1].s, t[k].s)
        /\ \A k \in 1..n : IsFloat(p[k]) /\ 0 <= p[k].f /\ p[k].f <= Scale
        /\ p[1].f = 0
        /\ p[n].f = Scale
        /\ \A k \in 2..(n - 1) : p[k + 1].f - p[k].f = p[k].f - p[k - 1].f

\* C15 (as stated): every non-empty frame returned by process_lap_telemetry
\* has lap_progress 0 on its first row and 1 on its last row in time order,
\* equal increments between consecutive rows and all values in [0,1], for
\* every row count of 1 or more.
C15_LapProgressZeroToOne == Returned(out) => UniformProgress(out)

\* C15 (amended): a returned frame of 2 or more rows has lap_progress 0 on
\* its first row and 1 on its last row in time order, equal increments and
\* all values in [0,1]; a frame of a single row has lap_progress 0 on that
\* row.
C15_LapProgressUniform ==
    Returned(out) =>
        IF Len(out.rows) = 1 THEN Column(out, "lap_progress") = <<FloatCell(0)>>
        ELSE UniformProgress(out)

\* A frame of four rows, with progress 0, 1/3, 2/3 and 1.
C15_Witness_FourRows ==
    /\ Returned(out) /\ Len(out.rows) = 4
    /\ Column(out, "lap_progress")[2] = FloatCell(Scale \div 3)

\* The number in a numeric cell, as a float.
ValueOf(c) == IF IsInt(c) THEN Scale * c.i ELSE c.f

\* C16: in every frame returned by process_lap_telemetry every retained
\* channel value is a number, never NaN, and lies in the declared range of
\* its channel (aps, ath, pbrake_f, pbrake_r 0..100, speed 0..250, gear an
\* integer 0..6, nmot 0..8500, Steering_Angle -540..540, accx_can, accy_can
\* -3..3), whatever raw values the source rows carried.
C16_ChannelsCleanAndInRange ==
    Returned(out) =>
        \A j \in 1..Len(out.columns), k \in 1..Len(out.rows) :
            LET c == out.columns[j]
                x == out.rows[k][j]
            IN  /\ c \in {KEY_PARAMETERS[i] : i \in 1..Len(KEY_PARAMETERS)} =>
                        IsInt(x) \/ IsFloat(x)
                /\ c \in DOMAIN ChannelRange =>
                        /\ Scale * ChannelRange[c][1] <= ValueOf(x)
                        /\ ValueOf(x) <= Scale * ChannelRange[c][2]
                /\ c = "gear" => IsInt(x)

\* Raw engine speeds above the range and unreadable ones were met: the frame
\* holds the upper bound 8500 and the default 5000.
C16_Witness_ClippedAndDefault ==
    /\ Returned(out)
    /\ \E i \in 1..Len(arg.telemetry_file) : arg.telemetry_file[i].telemetry_value = Inf
    /\ \E j \in 1..Len(out.columns) :
        /\ out.columns[j] = "nmot"
        /\ \E k, l \in 1..Len(out.rows) :
            /\ ValueOf(out.rows[k][j]) = Scale * 8500
            /\ ValueOf(out.rows[l][j]) = Scale * 5000

\* The rows of a telemetry file whose raw lap number is valid.
ValidRows(rows) ==
    SelectSeq(rows, LAMBDA r : normalize_lap_number(r.lap) # InvalidLap)

\* C28: rows whose raw lap number is invalid (the sentinel 32768, negative,
\* or above 100) never appear in a frame returned by process_lap_telemetry,
\* for every value of the requested lap: the frame returned is the one that
\* the file without its invalid rows gives.
C28_InvalidRowsNeverReturned ==
    op = "process_lap_telemetry" =>
        out = Resample(ValidRows(arg.telemetry_file), arg.lap, arg.sample_rate)

(***************************************************************************)
(* SpecFrame: the analysis components called on a lap table that the       *)
(* caller keeps: `laps` is the caller's table, before and after the call.  *)
(* The components that take analysis_df[...].copy() work on the copy and   *)
(* leave `laps` alone; get_optimal_lap_telemetry assigns a column of the   *)
(* table it was handed.                                                    *)
(***************************************************************************)
\* parse_lap_time of get_optimal_lap_telemetry, in ms: "M:S" with two parts
\* read by float(), any other text by float(), 999999 on any exception.
UnparsedLapMs == 999999000
parse_lap_time(time_str) ==
    LET parts == Split(time_str)
    IN  IF Len(parts) = 2
        THEN IF FloatOk(parts[1]) /\ FloatOk(parts[2])
             THEN ToMillis(MinSec(FloatVal(parts[1]), FloatVal(parts[2])))
             ELSE UnparsedLapMs
        ELSE IF FloatOk(time_str) THEN ToMillis(FloatVal(time_str))
             ELSE UnparsedLapMs

\* analysis_data['lap_time_seconds'] = analysis_data['LAP_TIME'].apply(parse_lap_time)
\* on the caller's table.
WithParsedLapTimes(analysis_data) ==
    [i \in 1..Len(analysis_data) |->
        [analysis_data[i] EXCEPT
            !.lap_time_seconds = Num(parse_lap_time(analysis_data[i].LAP_TIME))]]

ValidLapLimitMs == 180000

\* TelemetryProcessor.get_optimal_lap_telemetry: the table as the call leaves
\* it, the fastest lap below 180 s (the first of equals), and the telemetry
\* of that lap; an empty frame and -1 when no lap is below 180 s.
get_optimal_lap_telemetry(telemetry_file, analysis_data, sample_rate) ==
    LET table == WithParsedLapTimes(analysis_data)
        valid_laps == SelectSeq(table, LAMBDA r : r.lap_time_seconds.v < ValidLapLimitMs)
        least == MinTime(valid_laps)
        fastest_lap == valid_laps[CHOOSE i \in 1..Len(valid_laps) :
                          /\ valid_laps[i].lap_time_seconds = least
                          /\ \A j \in 1..(i - 1) : valid_laps[j].lap_time_seconds # least]
    IN  IF valid_laps = <<>>
        THEN [analysis_data |-> table, telemetry |-> EmptyFrame, fastest_lap_num |-> -1]
        ELSE [analysis_data |-> table,
              telemetry |-> Resample(telemetry_file, fastest_lap.LAP_NUMBER, sample_rate),
              fastest_lap_num |-> fastest_lap.LAP_NUMBER]

MaxFrameLaps == 3
FrameLaps == {2, 3}
FrameTotalLaps == 10

FrameTables ==
    {CompetitorRows(c) \o SparseTableOf(ts) :
        c \in {0, 3}, ts \in UNION {TextSeqs(n) : n \in 0..MaxFrameLaps}}

FrameDegradation ==
    /\ op = "idle"
    /\ Returns("analyze_lap_degradation", [vehicle_number |-> Vehicle],
               analyze_lap_degradation(laps, Vehicle))

FramePitWindow ==
    /\ op = "idle"
    /\ \E cur \in FrameLaps :
        Returns("predict_pit_window", [current_lap |-> cur, total_laps |-> FrameTotalLaps],
                predict_pit_window(laps, Vehicle, cur, FrameTotalLaps))

FrameFuelStrategy ==
    /\ op = "idle"
    /\ \E cur \in FrameLaps :
        Returns("calculate_fuel_strategy",
                [current_lap |-> cur, total_laps |-> FrameTotalLaps],
                calculate_fuel_strategy(laps, Vehicle, cur, FrameTotalLaps, None))

FrameRacePace ==
    /\ op = "idle"
    /\ \E cur \in FrameLaps :
        Returns("analyze_race_pace", [current_lap |-> cur],
                analyze_race_pace(laps, Vehicle, cur))

FrameOptimalPit ==
    /\ op = "idle"
    /\ \E cur \in FrameLaps :
        Returns("calculate_optimal_pit_strategy",
                [current_lap |-> cur, total_laps |-> FrameTotalLaps],
                calculate_optimal_pit_strategy(laps, Vehicle, cur, FrameTotalLaps))

FrameCoaching ==
    /\ op = "idle"
    /\ \E s \in {SectorsOf(BaseMs), SectorsOf(BaseMs + 600)} :
        Returns("find_coaching_opportunities", [current_lap_data |-> s],
                find_coaching_opportunities(laps, Vehicle, s))

\* The cache is empty: the telemetry of the fastest lap is computed and
\* saved when it has a row.
GetOptimalLapTelemetry ==
    /\ op = "idle"
    /\ \E rate \in SampleRates :
        LET r == get_optimal_lap_telemetry(Files.R1, laps, rate)
        IN  /\ op' = "get_optimal_lap_telemetry"
            /\ arg' = [telemetry_file |-> Files.R1, sample_rate |-> rate]
            /\ out' = [telemetry |-> r.telemetry, fastest_lap_num |-> r.fastest_lap_num]
            /\ laps' = r.analysis_data
            /\ disk' = IF r.telemetry = EmptyFrame THEN disk
                       ELSE (get_cache_path(Track, Race, r.fastest_lap_num)
                                :> ToCsv(r.telemetry)) @@ disk
    /\ UNCHANGED <<pc, call, loc, res>>

InitFrame == Idle /\ laps \in FrameTables
NextFrame ==
    \/ FrameDegradation
    \/ FramePitWindow
    \/ FrameFuelStrategy
    \/ FrameRacePace
    \/ FrameOptimalPit
    \/ FrameCoaching
    \/ GetOptimalLapTelemetry
SpecFrame == InitFrame /\ [][NextFrame]_vars

\* C17: no analysis component modifies the table its caller supplies: after
\* any call of analyze_lap_degradation, predict_pit_window,
\* calculate_fuel_strategy, analyze_race_pace, calculate_optimal_pit_strategy,
\* find_coaching_opportunities or get_optimal_lap_telemetry the caller's lap
\* table has the same columns and the same values as before the call.
C17_CallerTableUnchanged == [][laps' = laps]_vars

(***************************************************************************)
(* SpecLine: calculate_potential_lap_time and find_coaching_opportunities  *)
(* on lap tables of one competitor row and 0..MaxLineLaps rows of the      *)
(* vehicle, each with its own sector times; the lap time of a row is the   *)
(* sum of its sectors, or (in/out laps timed short) less than the sum.     *)
(***************************************************************************)
MaxLineLaps == 2
SectorTimes == <<{32000, 32100, 32101}, {32000, 32150}, {32000, 32200}>>
SectorTriples == {<<a, b, c>> : a \in SectorTimes[1], b \in SectorTimes[2], c \in SectorTimes[3]}
ShortBy == {0, 500}

RECURSIVE TripleSeqs(_)
TripleSeqs(n) ==
    IF n = 0 THEN {<<>>}
    ELSE {Append(ts, t) : ts \in TripleSeqs(n - 1), t \in SectorTriples}

LineTableOf(ts, short) ==
    <<LoadRow(Competitor, 1, LapTimeText(90000), SectorsOf(90000), 120)>>
    \o [i \in 1..Len(ts) |->
            LoadRow(Vehicle, i, LapTimeText(ts[i][1] + ts[i][2] + ts[i][3] - short),
                    ts[i], 120)]

LineTables ==
    {LineTableOf(ts, short) :
        ts \in UNION {TripleSeqs(n) : n \in 0..MaxLineLaps}, short \in ShortBy}

CalculatePotentialLapTime ==
    /\ op = "idle"
    /\ Returns("calculate_potential_lap_time", [vehicle_number |-> Vehicle],
               calculate_potential_lap_time(laps, Vehicle))

FindCoachingOpportunities ==
    /\ op = "idle"
    /\ \E s \in SectorTriples :
        Returns("find_coaching_opportunities", [current_lap_data |-> s],
                find_coaching_opportunities(laps, Vehicle, s))

InitLine == Idle /\ laps \in LineTables
NextLine == CalculatePotentialLapTime \/ FindCoachingOpportunities
SpecLine == InitLine /\ [][NextLine]_vars

\* Every lap of the vehicle has sector times that sum to its lap time.
SectorsSumToLapTime(rows) ==
    \A i \in 1..Len(rows) :
        rows[i].lap_time_seconds =
            Num(rows[i].S1_SECONDS + rows[i].S2_SECONDS + rows[i].S3_SECONDS)

\* m is the least value of the column among the rows.
IsColumnMinimum(m, rows, name) ==
    \A i \in 1..Len(rows) : m <= rows[i][name]

\* C18: for a vehicle whose every lap has sector times summing exactly to
\* its lap time, calculate_potential_lap_time returns theoretical_best equal
\* to the sum of the three per-sector minima over the vehicle's laps, and
\* improvement_potential = actual_best - theoretical_best is never negative.
C18_TheoreticalBestIsSumOfMinima ==
    LET rows == VehicleRows(laps, Vehicle)
    IN  (/\ op = "calculate_potential_lap_time"
         /\ rows # <<>>
         /\ SectorsSumToLapTime(rows)) =>
            /\ \E a \in {rows[i].S1_SECONDS : i \in 1..Len(rows)},
                  b \in {rows[i].S2_SECONDS : i \in 1..Len(rows)},
                  c \in {rows[i].S3_SECONDS : i \in 1..Len(rows)} :
                /\ IsColumnMinimum(a, rows, "S1_SECONDS")
                /\ IsColumnMinimum(b, rows, "S2_SECONDS")
                /\ IsColumnMinimum(c, rows, "S3_SECONDS")
                /\ out.theoretical_best = Num(a + b + c)
            /\ out.actual_best # NaN
            /\ out.improvement_potential =
                   Num(out.actual_best.v - out.theoretical_best.v)
            /\ out.improvement_potential.v >= 0

\* Two laps whose best sectors lie in different laps: the theoretical best
\* is below the best lap actually driven.
C18_Witness_BestSectorsInDifferentLaps ==
    LET rows == VehicleRows(laps, Vehicle)
    IN  /\ op = "calculate_potential_lap_time"
        /\ Len(rows) >= 2
        /\ SectorsSumToLapTime(rows)
        /\ out.improvement_potential.v > 0

\* C19: find_coaching_opportunities emits an opportunity for a sector exactly
\* when the given lap's time in that sector exceeds the personal-best lap's
\* time in the same sector by more than 0.1 s, emits at most one opportunity
\* per sector, and returns the list ordered by time_loss descending; for the
\* vehicle's personal-best lap itself the list is empty.
C19_OpportunityExactlyAboveTenth ==
    LET rows == VehicleRows(laps, Vehicle)
        best_lap == rows[IdxMin(rows)]
        best == <<best_lap.S1_SECONDS, best_lap.S2_SECONDS, best_lap.S3_SECONDS>>
        names == <<"S1", "S2", "S3">>
        cur == arg.current_lap_data
    IN  (op = "find_coaching_opportunities" /\ rows # <<>> /\ MinTime(rows) # NaN) =>
            /\ \A k \in 1..3 :
                (\E i \in 1..Len(out) : out[i].sector = names[k])
                    <=> cur[k] - best[k] > CoachingThresholdMs
            /\ \A i, j \in 1..Len(out) : i # j => out[i].sector # out[j].sector
            /\ \A i, j \in 1..Len(out) : i < j => out[i].time_loss >= out[j].time_loss
            /\ cur = best => out = <<>>

(***************************************************************************)
(* SpecDegradation: analyze_lap_degradation on lap tables whose rows carry *)
(* lap numbers from the first lap to beyond the nominal stint length, in   *)
(* any order, some with an unparsable lap time; a competitor row may come  *)
(* first.                                                                  *)
(***************************************************************************)
MaxDegradationLaps == 2
StintLapNumbers == {1, 2, 8, 14, 15, 16, 30}
StintRows ==
    {LoadRow(Vehicle, lap, text, SectorsOf(BaseMs), 120) :
        lap \in StintLapNumbers, text \in SparseTexts}

RECURSIVE StintTables(_)
StintTables(n) ==
    IF n = 0 THEN {<<>>}
    ELSE {Append(t, r) : t \in StintTables(n - 1), r \in StintRows}

AnalyzeLapDegradation ==
    /\ op = "idle"
    /\ Returns("analyze_lap_degradation", [vehicle_number |-> Vehicle],
               analyze_lap_degradation(laps, Vehicle))

InitDegradation ==
    /\ Idle
    /\ laps \in {CompetitorRows(c) \o t :
                    c \in {0, 1}, t \in UNION {StintTables(n) : n \in 0..MaxDegradationLaps}}
NextDegradation == AnalyzeLapDegradation
SpecDegradation == InitDegradation /\ [][NextDegradation]_vars

\* C20: the estimated_tire_life computed by analyze_lap_degradation is 100 at
\* lap 1, decreases linearly with lap number to 0 at lap 15 (the nominal
\* stint length), and lies in [0,100] for every lap number: on the line
\* through (1, 100) and (15, 0) the value at a lap is
\* 100 * (15 - lap) / (15 - 1), clipped to [0,100].
C20_TireLifeFullAtLapOne ==
    op = "analyze_lap_degradation" =>
        \A i \in 1..Len(out) :
            /\ 0 <= out[i].estimated_tire_life3
            /\ out[i].estimated_tire_life3 <= 300
            /\ (StintLength - 1) * out[i].estimated_tire_life3 =
                   Max(0, Min(300 * (StintLength - 1),
                              300 * (StintLength - out[i].LAP_NUMBER)))

(***************************************************************************)
(* SpecFinish: predict_finish_time on lap tables of 0..MaxFinishLaps rows  *)
(* of the vehicle, some with an unparsable lap time, at laps before, at    *)
(* and after the end of the race.                                          *)
(***************************************************************************)
MaxFinishLaps == 4
FinishTexts == {LapTimeText(BaseMs + 4), LapTimeText(BaseMs + 300), BadText}
FinishCurrentLaps == {2, 4}
FinishTotalLaps == {3, 4, 6}

RECURSIVE FinishTextSeqs(_)
FinishTextSeqs(n) ==
    IF n = 0 THEN {<<>>}
    ELSE {Append(ts, t) : ts \in FinishTextSeqs(n - 1), t \in FinishTexts}

FinishTables ==
    {SparseTableOf(ts) : ts \in UNION {FinishTextSeqs(n) : n \in 0..MaxFinishLaps}}

PredictFinishTime ==
    /\ op = "idle"
    /\ \E cur \in FinishCurrentLaps, tot \in FinishTotalLaps :
        Returns("predict_finish_time", [current_lap |-> cur, total_laps |-> tot],
                predict_finish_time(laps, Vehicle, cur, tot))

InitFinish == Idle /\ laps \in FinishTables
NextFinish == PredictFinishTime
SpecFinish == InitFinish /\ [][NextFinish]_vars

\* C22: predict_finish_time reports predicted_finish_seconds = time_elapsed
\* + time_remaining, where time_remaining is the sum over i = 0 ..
\* laps_remaining-1 of (current_pace + trend * i), i.e. laps_remaining *
\* current_pace + trend * laps_remaining * (laps_remaining - 1) / 2; when
\* total_laps - current_lap is zero, time_remaining is 0, predicted_avg_lap
\* is 0 and nothing is divided by zero; when analyze_race_pace reports an
\* error, that error record is returned unchanged.  Each figure is reported
\* rounded to 2 decimals, so the reported sum agrees to 0.01 s.
C22_FinishIsElapsedPlusRemaining ==
    op = "predict_finish_time" =>
        LET pace == analyze_race_pace(laps, Vehicle, arg.current_lap)
            n == arg.total_laps - arg.current_lap
            elapsed == Sum(ParsedTimes(RowsUpTo(laps, Vehicle, arg.current_lap)))
            remaining == IF n <= 0 THEN 0
                         ELSE n * 10 * pace.current_pace
                                  + TrendPerLap(pace) * ((n * (n - 1)) \div 2)
        IN  IF "error" \in DOMAIN pace THEN out = pace
            ELSE /\ out # Raised
                 /\ out.time_elapsed = RoundHalfEven(elapsed, 10)
                 /\ out.time_remaining = RoundHalfEven(remaining, 100)
                 /\ out.predicted_finish_seconds =
                        RoundHalfEven(10 * elapsed + remaining, 100)
                 /\ out.predicted_finish_seconds - (out.time_elapsed + out.time_remaining)
                        \in {-1, 0, 1}
                 /\ n = 0 => out.time_remaining = 0 /\ out.predicted_avg_lap = 0

\* Laps remain and the pace has a trend, so the terms of the sum differ.
C22_Witness_TrendOverRemainingLaps ==
    /\ op = "predict_finish_time"
    /\ "time_remaining" \in DOMAIN out
    /\ out.laps_remaining >= 2
    /\ TrendPerLap(analyze_race_pace(laps, Vehicle, arg.current_lap)) # 0

\* C23: analyze_lap_degradation returns one row per lap of the vehicle (no
\* lap is dropped by the rolling window), ordered by ascending lap number,
\* with delta_to_best >= 0 on every row and equal to 0 on the vehicle's best
\* lap; it returns an empty profile when the vehicle has no laps.
C23_ProfileRowsAndDeltas ==
    op = "analyze_lap_degradation" =>
        LET rows == VehicleRows(laps, Vehicle)
        IN  /\ Len(out) = Len(rows)
            /\ \A lap \in StintLapNumbers :
                Cardinality({i \in 1..Len(out) : out[i].LAP_NUMBER = lap}) =
                    Cardinality({i \in 1..Len(rows) : rows[i].LAP_NUMBER = lap})
            /\ \A i, j \in 1..Len(out) : i < j => out[i].LAP_NUMBER <= out[j].LAP_NUMBER
            /\ \A i \in 1..Len(out) :
                /\ out[i].delta_to_best # NaN
                /\ out[i].delta_to_best.v >= 0
                /\ out[i].lap_time_seconds = MinTime(rows) =>
                       out[i].delta_to_best = Num(0)
            /\ rows = <<>> => out = <<>>

(***************************************************************************)
(* SpecScan: one cold call of process_lap_telemetry, the chunk loop taken  *)
(* one chunk at a time.  The file holds PrefixRows rows of lap 1, then the *)
(* rows of lap 2 at consecutive instants, then rows of lap 3; loc holds    *)
(* the number of chunks read so far and the rows kept (lap_data_chunks).   *)
(***************************************************************************)
MaxPrefix == 13
MaxTargetRows == 4
MaxSuffix == 3
TargetLap == 2

ScanFile(p, m, s) ==
    [i \in 1..p |-> Row(1, 0, Car78, "speed", Tenths(900))]
    \o [i \in 1..m |-> Row(TargetLap, i, Car78, "speed", Tenths(1000 + i))]
    \o [i \in 1..s |-> Row(3, 9, Car78, "speed", Tenths(1100))]

ScanFiles ==
    {ScanFile(p, m, s) : p \in 0..MaxPrefix, m \in 0..MaxTargetRows, s \in 0..MaxSuffix}

\* if len(lap_data_chunks) > 0 and rows_processed > chunk_size * 3: break
BreakNow(rows, l) ==
    /\ l.lap_data # <<>>
    /\ Min(l.chunks_read * ChunkSize, Len(rows)) > ChunkSize * 3

\* No cache file for the key: the reader is opened on the file.
ScanOpen ==
    /\ op = "idle"
    /\ \E rows \in ScanFiles, rate \in SampleRates :
        /\ op' = "scanning"
        /\ arg' = [telemetry_file |-> rows, lap |-> TargetLap, sample_rate |-> rate]
        /\ loc' = [chunks_read |-> 0, lap_data |-> <<>>]
    /\ UNCHANGED <<out, laps, disk, pc, call, res>>

\* One pass of the loop body: the next chunk is read, its rows of the lap
\* are strided and kept.
ScanReadChunk ==
    /\ op = "scanning"
    /\ loc.chunks_read < NumChunks(arg.telemetry_file)
    /\ ~BreakNow(arg.telemetry_file, loc)
    /\ LET lap_chunk == SelectSeq(Chunk(arg.telemetry_file, loc.chunks_read + 1),
                                  LAMBDA r : normalize_lap_number(r.lap) = arg.lap)
       IN  loc' = [chunks_read |-> loc.chunks_read + 1,
                   lap_data |-> loc.lap_data \o Stride(lap_chunk, arg.sample_rate)]
    /\ UNCHANGED <<op, arg, out, laps, disk, pc, call, res>>

\* The loop is left by break or at the end of the file: pd.DataFrame() when
\* nothing was kept, else the frame, which is saved to the cache.
ScanReturn ==
    /\ op = "scanning"
    /\ loc.chunks_read = NumChunks(arg.telemetry_file) \/ BreakNow(arg.telemetry_file, loc)
    /\ LET frame == IF loc.lap_data = <<>> THEN EmptyFrame
                    ELSE PivotAndClean(loc.lap_data)
       IN  /\ op' = "process_lap_telemetry"
           /\ out' = frame
           /\ disk' = IF frame = EmptyFrame THEN disk
                      ELSE (get_cache_path(Track, Race, arg.lap) :> ToCsv(frame)) @@ disk
    /\ UNCHANGED <<arg, laps, pc, call, loc, res>>

InitScan == Idle /\ laps = <<>>
NextScan == ScanOpen \/ ScanReadChunk \/ ScanReturn
SpecScan == InitScan /\ [][NextScan]_vars

\* The chunks of the file that hold a row of the lap asked for.
MatchingChunks(a) ==
    {k \in 1..NumChunks(a.telemetry_file) :
        \E i \in 1..Len(Chunk(a.telemetry_file, k)) :
            normalize_lap_number(Chunk(a.telemetry_file, k)[i].lap) = a.lap}

FirstMatch(a) == CHOOSE k \in MatchingChunks(a) : \A j \in MatchingChunks(a) : k <= j

\* The loop taken chunk by chunk returns what the loop taken at once returns.
ScanAgreesWithResample ==
    op = "process_lap_telemetry" =>
        out = Resample(arg.telemetry_file, arg.lap, arg.sample_rate)

ScanBound == 3

\* C24: during a cold-cache scan process_lap_telemetry never stops before
\* reading the first chunk that contains a row of the target lap, and after
\* that first match it goes on to consume further chunks up to a fixed bound
\* before it stops, wherever in the file the first match occurs: when the
\* scan has stopped it has read the first matching chunk, at least one chunk
\* after it if the file has one, and at most ScanBound chunks after it.
C24_ScanContinuesBeyondFirstMatch ==
    (op = "process_lap_telemetry" /\ MatchingChunks(arg) # {}) =>
        /\ loc.chunks_read >= FirstMatch(arg)
        /\ FirstMatch(arg) < NumChunks(arg.telemetry_file) =>
               loc.chunks_read > FirstMatch(arg)
        /\ loc.chunks_read <= FirstMatch(arg) + ScanBound

\* C27: when the rows of the target lap are contiguous in file order, a
\* cold-cache process_lap_telemetry call takes its sampled rows from every
\* chunk that contains a row of the target lap: no such chunk is left
\* unread, including when the lap's rows span a chunk boundary that lies
\* after the third chunk of the file.
C27_EveryMatchingChunkRead ==
    op = "process_lap_telemetry" =>
        \A k \in MatchingChunks(arg) : k <= loc.chunks_read

====
